---- MODULE Spec2Model ----
(***************************************************************************)
(* Model of the local Git file-system service of the CMS backend           *)
(* (GitFileSystemService) and of the route-handler wrappers that gate      *)
(* mutating requests per repository (middleware/routeHandler).             *)
(*                                                                         *)
(* The specifications of the module:                                       *)
(*   SpecGate     - the request wrappers, one step per await;              *)
(*   Spec         - the mutating operations of GitFileSystemService on the *)
(*                  two working trees, one action per call;                *)
(*   SpecAccepted - the same on volumes accepted by clone as they were;    *)
(*   SpecCommit   - commit called on its own, among mutating calls;        *)
(*   SpecSync     - isValidGitRepo, clone, pull, push and updateRepoState  *)
(*                  on volumes in any state;                               *)
(*   SpecValid    - isValidGitRepo called repeatedly, among calls of clone; *)
(*   SpecRepo     - RepoService in front of the Git file system and GitHub; *)
(*   SpecRace     - concurrent requests that run create and read, one step *)
(*                  per await.                                             *)
(***************************************************************************)
EXTENDS Integers, Sequences, FiniteSets, TLC

(***************************************************************************)
(* Bounds                                                                  *)
(***************************************************************************)
NumRequests == 3
MaxCalls == 2

MaxPathSpec == 3

Req == 1..NumRequests
Repos == {"s1", "s2"}
Wrappers == {"write", "rollback"}

VARIABLES
  \* ---- request wrappers (SpecGate)
  pc,         \* position of each request in its wrapper
  site,       \* req.params.siteName of each request
  wrapper,    \* which wrapper the route is attached with
  capt,       \* outcome of the commit capture of the rollback wrapper
  recovered,  \* outcome of the recovery run by the rollback wrapper's catch
  nextErrs,   \* the errors each request has passed to next()
  mutex,      \* repository names whose advisory lock is held
  seen,       \* per request: what handleGitFileLock found, how lock ended, and
              \* the number of times the request has called unlock
  \* ---- the working trees of one repository on the two volumes (Spec)
  efs,        \* per branch: files and directories on disk (wt), the Git
              \* index, every commit made so far (its tree and its parent)
              \* and the commit the branch points to (head)
  consumed,   \* per branch and file, the oldSha values of the updates that succeeded
  gone,       \* files of the staging branch that a delete has removed and no
              \* successful call has put back since
  calls,      \* number of calls made so far
  last,       \* the last call of a mutating operation and its outcome
  checkedOut, \* per volume: the branch git rev-parse --abbrev-ref HEAD names
  \* ---- the roots of the two volumes (SpecSync)
  vol,        \* per volume: what is at the root path of the repository
  sync,       \* the last call of isValidGitRepo, pull, push or clone
  \* ---- the calls made by the handlers of concurrent requests (SpecRace)
  running,    \* per request: the call of its handler, and what it has met
  \* ---- RepoService in front of the two backends (SpecRepo)
  served,     \* the whitelist of the configuration and the last call served
  \* ---- TokenService and the access tokens of the database (SpecToken)
  tokens      \* the rows of the database, the fields of the service, its calls

gateVars == <<pc, site, wrapper, capt, recovered, nextErrs, mutex, seen>>

fsVars == <<efs, consumed, gone, calls, last, checkedOut, vol, sync, running, served,
           tokens>>

vars == <<gateVars, fsVars>>

(***************************************************************************)
(* The advisory mutex (@utils/mutex-utils): lock(repoName) acquires the    *)
(* per-repository lock or throws at once when it is held; unlock(repoName) *)
(* releases it. The lock carries no payload beyond the repository name.    *)
(***************************************************************************)
CanLock(m, repoName) == repoName \notin m

lock(m, repoName) == m \cup {repoName}

unlock(m, repoName) == m \ {repoName}

(***************************************************************************)
(* The working tree, the index and the commits of a branch. Paths are      *)
(* <<dir>> or <<dir, name>>; a tree maps file paths to contents.           *)
(***************************************************************************)
STAGING_BRANCH == "staging"
STAGING_LITE_BRANCH == "staging-lite"
Branches == {STAGING_BRANCH, STAGING_LITE_BRANCH}

Dirs == {"d1", "d2"}
Names == {"a", "b"}
Contents == {"c1", "c2"}
Absent == "absent"

DirPaths == {<<d>> : d \in Dirs}
FilePaths == {<<d, n>> : d \in Dirs, n \in Names}
Paths == DirPaths \cup FilePaths

EmptyTree == [p \in FilePaths |-> Absent]
SeedTree == [EmptyTree EXCEPT ![<<"d1", "a">>] = "c1", ![<<"d1", "b">>] = "c2"]

TreeDirs(t) == {d \in Dirs : \E n \in Names : t[<<d, n>>] # Absent}
Under(p) == IF Len(p) = 1 THEN {<<p[1], n>> : n \in Names} ELSE {p}

\* SHA-1 names: commit hashes and blob hashes never coincide.
ShaNames == <<"k1", "k2", "k3", "k4", "k5", "k6", "k7", "k8">>
CommitSha(i) == ShaNames[i]
BlobSha(content) == IF content = "c1" THEN "h1" ELSE "h2"
CommitIndex(cs, sha) ==
  IF \E i \in 1..Len(cs) : CommitSha(i) = sha
    THEN CHOOSE i \in 1..Len(cs) : CommitSha(i) = sha
    ELSE 0

Ok(v) == [ok |-> TRUE, val |-> v]
Err(e) == [ok |-> FALSE, val |-> e]

HeadTree(s) == s.commits[s.head].tree

\* What an operation called with branchName runs on: the working tree of
\* that branch (getEfsVolPathFromBranch), and the tree at HEAD of the
\* working tree on the staging volume, which getGitBlobHash reads.
Repo(e, branchName) ==
  [wt |-> e[branchName].wt, index |-> e[branchName].index,
   commits |-> e[branchName].commits, head |-> e[branchName].head,
   staging |-> HeadTree(e[STAGING_BRANCH])]

\* The working tree of a branch after a step of a call.
Stored(s) == [wt |-> s.wt, index |-> s.index, commits |-> s.commits, head |-> s.head]

\* What is recorded of a call: its arguments, the state it started from
\* (pre), its result, the step it stopped at, whether the disk mutation ran,
\* whether rollback was invoked and succeeded, the commit captured at its
\* start (target, which rollback is invoked with), and the message of the
\* error returned after a needs-rollback failure.
Call(op, branchName, path, dest, oldSha, stale, pre, co, out) ==
  [op |-> op, branch |-> branchName, path |-> path, dest |-> dest, oldSha |-> oldSha, stale |-> stale,
   pre |-> pre, checkedOut |-> co,
   res |-> out.res, stage |-> out.stage, mutated |-> out.mutated,
   rolledBack |-> out.rolledBack, rbOk |-> out.rbOk, target |-> out.target,
   msg |-> out.msg]

NoCall ==
  [op |-> "none", branch |-> STAGING_BRANCH, path |-> <<>>, dest |-> <<>>, oldSha |-> "", stale |-> FALSE,
   pre |-> <<>>, checkedOut |-> STAGING_BRANCH,
   res |-> Ok(""), stage |-> "none", mutated |-> FALSE,
   rolledBack |-> FALSE, rbOk |-> FALSE, target |-> "", msg |-> ""]

\* A clean working tree whose branch points to the last of the given commits.
CleanRepo(cs) ==
  [wt |-> [dirs |-> TreeDirs(cs[Len(cs)].tree), files |-> cs[Len(cs)].tree],
   index |-> cs[Len(cs)].tree,
   commits |-> cs,
   head |-> Len(cs)]

\* The session user and the text an operation passes to commit.
UserId == "user"
Message == "text"

\* JSON.stringify(commitMessageObj): the keys and values in the order they
\* were set, fileName (pathSpec[0].split("/").pop()) only for one entry.
commitMessage(pathSpec) ==
  <<<<"message", Message>>, <<"userId", UserId>>>> \o
    (IF Len(pathSpec) = 1
       THEN <<<<"fileName", pathSpec[1][Len(pathSpec[1])]>>>>
       ELSE <<>>)

\* The commit the clone starts from; its message is none of commit's.
SeedCommit == [tree |-> SeedTree, parent |-> 0, message |-> <<>>]

\* The repository as cloned on both volumes: one commit holding d1/a and d1/b.
FsFresh ==
  /\ efs = [b \in Branches |-> CleanRepo(<<SeedCommit>>)]
  /\ consumed = [b \in Branches |-> [p \in FilePaths |-> {}]]
  /\ gone = {}
  /\ calls = 0
  /\ last = NoCall

\* The same after update(d1/a, "c2", oldSha = BlobSha("c1"), branch staging).
FsUpdated ==
  /\ efs = [b \in Branches |->
              IF b = STAGING_BRANCH
                THEN CleanRepo(<<SeedCommit,
                                 [tree |-> [SeedTree EXCEPT ![<<"d1", "a">>] = "c2"],
                                  parent |-> 1,
                                  message |-> commitMessage(<<<<"d1", "a">>>>)]>>)
                ELSE CleanRepo(<<SeedCommit>>)]
  /\ consumed = [b \in Branches |-> [p \in FilePaths |->
                   IF b = STAGING_BRANCH /\ p = <<"d1", "a">> THEN {BlobSha("c1")} ELSE {}]]
  /\ gone = {}
  /\ calls = 0
  /\ last = NoCall

\* The same after the catch of the rollback wrapper has reset staging to the
\* commit captured before the handler made that update: the commit of the
\* update stays in the repository, outside the history of the branch.
FsRolledBack ==
  /\ efs = [b \in Branches |->
              IF b = STAGING_BRANCH
                THEN [CleanRepo(<<SeedCommit>>) EXCEPT
                        !.commits = <<SeedCommit,
                                      [tree |-> [SeedTree EXCEPT ![<<"d1", "a">>] = "c2"],
                                       parent |-> 1,
                                       message |-> commitMessage(<<<<"d1", "a">>>>)]>>]
                ELSE CleanRepo(<<SeedCommit>>)]
  /\ consumed = [b \in Branches |-> [p \in FilePaths |->
                   IF b = STAGING_BRANCH /\ p = <<"d1", "a">> THEN {BlobSha("c1")} ELSE {}]]
  /\ gone = {}
  /\ calls = 0
  /\ last = NoCall

FsStart == FsFresh \/ FsUpdated

\* fs.promises.stat: "dir", "file", or "none" for ENOENT
getFilePathStats(s, path) ==
  IF Len(path) = 1
    THEN IF path[1] \in s.wt.dirs THEN "dir" ELSE "none"
    ELSE IF s.wt.files[path] # Absent THEN "file" ELSE "none"

\* git rev-parse HEAD:<filePath>, run in the working tree of the staging
\* volume (no caller passes isStaging, which defaults to true)
\* (for a directory the hash of its tree, when HEAD holds a file under it)
getGitBlobHash(s, filePath) ==
  IF Len(filePath) = 1
    THEN IF filePath[1] \in TreeDirs(s.staging)
           THEN Ok("tree") ELSE Err("GitFileSystemError")
  ELSE IF s.staging[filePath] # Absent
    THEN Ok(BlobSha(s.staging[filePath]))
    ELSE Err("GitFileSystemError")

\* git log <ref>: the latest commit of the branch, or of origin/<branch>. The
\* remote-tracking branch stays at the commit that was cloned: the operations
\* commit locally, and nothing in these specifications pushes.
getGitLog(s, ref) == IF ref = "origin" THEN CommitSha(1) ELSE CommitSha(s.head)

\* getLatestCommitOfBranch(repoName, branchName): git log <branch>, and when
\* that fails (fail = "branchLog") git log origin/<branch>.
getLatestCommitOfBranch(s, fail) ==
  IF fail = "branchLog" THEN getGitLog(s, "origin") ELSE getGitLog(s, "local")

\* git reset --hard <sha>: index and tracked files become the commit's tree.
GitResetHard(s, sha) ==
  LET i == CommitIndex(s.commits, sha)
      t == s.commits[i].tree
      tracked == {p \in FilePaths : s.index[p] # Absent \/ t[p] # Absent}
      files == [p \in FilePaths |-> IF p \in tracked THEN t[p] ELSE s.wt.files[p]]
      emptied == {d \in TreeDirs(s.index) : \A n \in Names : files[<<d, n>>] = Absent}
  IN  [s EXCEPT !.head = i,
                !.index = t,
                !.wt = [dirs |-> (s.wt.dirs \ emptied) \cup TreeDirs(t), files |-> files]]

\* git clean -f -d: untracked files and directories are removed.
GitClean(s) ==
  [s EXCEPT !.wt = [dirs |-> TreeDirs(s.index),
                    files |-> [p \in FilePaths |->
                                 IF s.index[p] # Absent THEN s.wt.files[p] ELSE Absent]]]

\* Variant of rollback that resets without cleaning: untracked files stay.
rollbackWithoutClean(s, commitSha, rb) ==
  IF rb = "reset" \/ CommitIndex(s.commits, commitSha) = 0
    THEN [s |-> s, res |-> Err("GitFileSystemError")]
  ELSE [s |-> GitResetHard(s, commitSha),
        res |-> IF rb = "clean" THEN Err("GitFileSystemError") ELSE Ok("true")]

\* rollback(repoName, commitSha, branchName): reset --hard, then clean.
\* rb names the Git command that fails, if any.
rollback(s, commitSha, rb) ==
  IF rb = "reset" \/ CommitIndex(s.commits, commitSha) = 0
    THEN [s |-> s, res |-> Err("GitFileSystemError")]
  ELSE IF rb = "clean"
    THEN [s |-> GitResetHard(s, commitSha), res |-> Err("GitFileSystemError")]
  ELSE [s |-> GitClean(GitResetHard(s, commitSha)), res |-> Ok("true")]

\* git add <pathSpec>: fatal when a pathspec matches no file.
GitAddMatches(s, p) ==
  \E q \in Under(p) : s.wt.files[q] # Absent \/ s.index[q] # Absent
GitAdd(s, pathSpec) ==
  LET staged == UNION {Under(pathSpec[i]) : i \in 1..Len(pathSpec)}
  IN  [s EXCEPT !.index = [p \in FilePaths |->
                             IF p \in staged THEN s.wt.files[p] ELSE s.index[p]]]

\* git commit -m <message>: a new commit of the index on top of HEAD.
GitCommit(s, message) ==
  [s EXCEPT !.commits = Append(s.commits, [tree |-> s.index, parent |-> s.head,
                                           message |-> message]),
            !.head = Len(s.commits) + 1]

NeedsRollback == "GitFileSystemNeedsRollbackError"

\* What a step of an operation hands to the next one.
Step(s, res, stage) == [s |-> s, res |-> res, stage |-> stage]

\* Variant of commit that accepts a pathSpec of any length.
commitOfAnyLength(s, pathSpec, skipGitAdd, fail) ==
  IF fail = "valid" THEN Step(s, Err("GitFileSystemError"), "valid")
  ELSE IF fail = "branch" THEN Step(s, Err("GitFileSystemError"), "branch")
  ELSE IF ~skipGitAdd /\ (fail = "add" \/ \E i \in 1..Len(pathSpec) : ~GitAddMatches(s, pathSpec[i]))
    THEN Step(s, Err(NeedsRollback), "add")
  ELSE
    LET s1 == IF skipGitAdd THEN s ELSE GitAdd(s, pathSpec)
    IN  IF fail = "commit" THEN Step(s1, Err(NeedsRollback), "commit")
        ELSE IF s1.index = HeadTree(s1) THEN Step(s1, Ok(""), "done")
        ELSE LET s2 == GitCommit(s1, commitMessage(pathSpec))
             IN  Step(s2, Ok(CommitSha(s2.head)), "done")

\* commit(repoName, pathSpec, userId, message, branchName, skipGitAdd).
\* fail names the environment failure injected in this call, if any.
commit(s, pathSpec, skipGitAdd, fail) ==
  IF fail = "valid" THEN Step(s, Err("GitFileSystemError"), "valid")
  ELSE IF Len(pathSpec) < 1 \/ Len(pathSpec) > 2
    THEN Step(s, Err("GitFileSystemError"), "pathSpec")
  ELSE IF fail = "branch" THEN Step(s, Err("GitFileSystemError"), "branch")
  ELSE IF ~skipGitAdd /\ (fail = "add" \/ \E i \in 1..Len(pathSpec) : ~GitAddMatches(s, pathSpec[i]))
    THEN Step(s, Err(NeedsRollback), "add")
  ELSE
    LET s1 == IF skipGitAdd THEN s ELSE GitAdd(s, pathSpec)
    IN  IF fail = "commit" THEN Step(s1, Err(NeedsRollback), "commit")
        ELSE IF s1.index = HeadTree(s1) THEN Step(s1, Ok(""), "done")
        ELSE LET s2 == GitCommit(s1, commitMessage(pathSpec))
             IN  Step(s2, Ok(CommitSha(s2.head)), "done")

\* The message of a needs-rollback error, by the step that raised it:
\* git add and git commit, or the change of the disk.
MessageAt(stage) ==
  IF stage \in {"add", "commit"} THEN "Unable to commit changes"
  ELSE "Unable to update file on disk"

\* The message of the error of a rollback that failed.
RollbackMessage == "Unable to rollback to original state"

\* Variant of the closing orElse that returns the error of the operation
\* whether or not the rollback succeeded.
SettleHidingRollbackFailure(r, oldStateSha, rb, mutated) ==
  IF ~r.res.ok /\ r.res.val = NeedsRollback
    THEN LET b == rollback(r.s, oldStateSha, rb)
         IN  [s |-> b.s, res |-> Err("GitFileSystemError"), stage |-> r.stage,
              mutated |-> mutated, rolledBack |-> TRUE, rbOk |-> b.res.ok,
              target |-> oldStateSha,
              msg |-> MessageAt(r.stage)]
    ELSE [s |-> r.s, res |-> r.res, stage |-> r.stage,
          mutated |-> mutated, rolledBack |-> FALSE, rbOk |-> FALSE,
          target |-> oldStateSha, msg |-> ""]

\* The closing orElse of every mutating operation: a needs-rollback error
\* triggers rollback(oldStateSha); when the rollback succeeds the error
\* becomes a plain GitFileSystemError with the same message, and when it
\* fails the error of the rollback is returned.
Settle(r, oldStateSha, rb, mutated) ==
  IF ~r.res.ok /\ r.res.val = NeedsRollback
    THEN LET b == rollback(r.s, oldStateSha, rb)
         IN  [s |-> b.s, res |-> Err("GitFileSystemError"), stage |-> r.stage,
              mutated |-> mutated, rolledBack |-> TRUE, rbOk |-> b.res.ok,
              target |-> oldStateSha,
              msg |-> IF b.res.ok THEN MessageAt(r.stage) ELSE RollbackMessage]
    ELSE [s |-> r.s, res |-> r.res, stage |-> r.stage,
          mutated |-> mutated, rolledBack |-> FALSE, rbOk |-> FALSE,
          target |-> oldStateSha, msg |-> ""]

WriteFile(s, filePath, content) ==
  [s EXCEPT !.wt.files[filePath] = content]

Mkdir(s, d) == [s EXCEPT !.wt.dirs = @ \cup {d}]

\* Variant of create that writes without looking for a file at the path.
createWithoutConflictCheck(s, directoryName, fileName, content, fail, rb) ==
  LET filePath == IF directoryName = "" THEN <<fileName>> ELSE <<directoryName, fileName>>
      oldStateSha == getLatestCommitOfBranch(s, fail)
      dirStats == IF directoryName = "" THEN "dir" ELSE getFilePathStats(s, <<directoryName>>)
      s1 == IF dirStats = "dir" THEN s ELSE Mkdir(s, directoryName)
  IN  IF dirStats # "dir" /\ fail = "mkdir"
        THEN Settle(Step(s, Err("GitFileSystemError"), "mkdir"), oldStateSha, rb, FALSE)
      ELSE IF fail = "fs" \/ getFilePathStats(s1, filePath) = "dir"
        THEN Settle(Step(s1, Err(NeedsRollback), "fs"), oldStateSha, rb, FALSE)
      ELSE Settle(commit(WriteFile(s1, filePath, content), <<filePath>>, FALSE, fail),
                  oldStateSha, rb, TRUE)

\* create(repoName, userId, content, directoryName, fileName, encoding, branchName)
\* With an empty directoryName the file path is fileName, at the root of the
\* working tree. writeFile fails (EISDIR) on a path that is a directory.
create(s, directoryName, fileName, content, fail, rb) ==
  LET filePath == IF directoryName = "" THEN <<fileName>> ELSE <<directoryName, fileName>>
      oldStateSha == getLatestCommitOfBranch(s, fail)
      dirStats == IF directoryName = "" THEN "dir" ELSE getFilePathStats(s, <<directoryName>>)
      s1 == IF dirStats = "dir" THEN s ELSE Mkdir(s, directoryName)
  IN  IF fail = "log"
        THEN Settle(Step(s, Err("GitFileSystemError"), "log"), oldStateSha, rb, FALSE)
      ELSE IF dirStats # "dir" /\ fail = "mkdir"
        THEN Settle(Step(s, Err("GitFileSystemError"), "mkdir"), oldStateSha, rb, FALSE)
      ELSE IF getFilePathStats(s1, filePath) = "file"
        THEN Settle(Step(s1, Err("ConflictError"), "check"), oldStateSha, rb, FALSE)
      ELSE IF fail = "fs" \/ getFilePathStats(s1, filePath) = "dir"
        THEN Settle(Step(s1, Err(NeedsRollback), "fs"), oldStateSha, rb, FALSE)
      ELSE Settle(commit(WriteFile(s1, filePath, content), <<filePath>>, FALSE, fail),
                  oldStateSha, rb, TRUE)

\* read(repoName, filePath): the content on disk and the blob hash at HEAD,
\* both of the working tree on the staging volume
read(s, filePath) ==
  IF Len(filePath) # 2 THEN Err("GitFileSystemError")
  ELSE IF s.wt.files[filePath] = Absent THEN Err("NotFoundError")
  ELSE IF ~getGitBlobHash(s, filePath).ok THEN Err("GitFileSystemError")
  ELSE [ok |-> TRUE, val |-> "file", content |-> s.wt.files[filePath],
        sha |-> getGitBlobHash(s, filePath).val]

\* fs.promises.readdir(directoryPath, {withFileTypes: true}); <<>> is the root
ReadDir(s, directoryPath) ==
  IF directoryPath = <<>> THEN {<<d>> : d \in s.wt.dirs}
  ELSE {q \in Under(directoryPath) : s.wt.files[q] # Absent}

\* The GitDirectoryItem of one directory entry; sha is "" when the hash lookup fails.
DirectoryItem(s, path) ==
  [name |-> path[Len(path)],
   type |-> IF Len(path) = 1 THEN "dir" ELSE "file",
   sha |-> IF getGitBlobHash(s, path).ok THEN getGitBlobHash(s, path).val ELSE "",
   path |-> path]

\* listDirectoryContents(repoName, directoryPath, branchName)
listDirectoryContents(s, directoryPath) ==
  IF directoryPath # <<>> /\ getFilePathStats(s, directoryPath) = "none"
    THEN Err("NotFoundError")
  ELSE IF directoryPath # <<>> /\ getFilePathStats(s, directoryPath) # "dir"
    THEN Err("GitFileSystemError")
  ELSE Ok({item \in {DirectoryItem(s, q) : q \in ReadDir(s, directoryPath)} :
             item.sha # ""})

\* update(repoName, filePath, fileContent, oldSha, userId, branchName)
update(s, filePath, fileContent, oldSha, fail, rb) ==
  LET oldStateSha == getLatestCommitOfBranch(s, fail)
      stats == getFilePathStats(s, filePath)
  IN  IF fail = "log"
        THEN Settle(Step(s, Err("GitFileSystemError"), "log"), oldStateSha, rb, FALSE)
      ELSE IF stats = "none"
        THEN Settle(Step(s, Err("NotFoundError"), "check"), oldStateSha, rb, FALSE)
      ELSE IF stats # "file"
        THEN Settle(Step(s, Err("GitFileSystemError"), "check"), oldStateSha, rb, FALSE)
      ELSE IF ~getGitBlobHash(s, filePath).ok
        THEN Settle(Step(s, Err("GitFileSystemError"), "check"), oldStateSha, rb, FALSE)
      ELSE IF getGitBlobHash(s, filePath).val # oldSha
        THEN Settle(Step(s, Err("ConflictError"), "check"), oldStateSha, rb, FALSE)
      ELSE IF fail = "fs"
        THEN Settle(Step(s, Err(NeedsRollback), "fs"), oldStateSha, rb, FALSE)
      ELSE Settle(commit(WriteFile(s, filePath, fileContent), <<filePath>>, FALSE, fail),
                  oldStateSha, rb, TRUE)

\* fs.promises.rm(path) / rm(path, {recursive, force})
Rm(s, path) ==
  [s EXCEPT !.wt = [dirs |-> IF Len(path) = 1 THEN s.wt.dirs \ {path[1]} ELSE s.wt.dirs,
                    files |-> [p \in FilePaths |->
                                 IF p \in Under(path) THEN Absent ELSE s.wt.files[p]]]]

\* delete(repoName, path, oldSha, userId, isDir, branchName)
delete(s, path, oldSha, isDir, fail, rb) ==
  LET oldStateSha == getLatestCommitOfBranch(s, fail)
      stats == getFilePathStats(s, path)
  IN  IF fail = "log"
        THEN Settle(Step(s, Err("GitFileSystemError"), "log"), oldStateSha, rb, FALSE)
      ELSE IF stats = "none"
        THEN Settle(Step(s, Err("NotFoundError"), "check"), oldStateSha, rb, FALSE)
      ELSE IF (isDir /\ stats # "dir") \/ (~isDir /\ stats # "file")
        THEN Settle(Step(s, Err("GitFileSystemError"), "check"), oldStateSha, rb, FALSE)
      ELSE IF ~isDir /\ ~getGitBlobHash(s, path).ok
        THEN Settle(Step(s, Err("GitFileSystemError"), "check"), oldStateSha, rb, FALSE)
      ELSE IF ~isDir /\ getGitBlobHash(s, path).val # oldSha
        THEN Settle(Step(s, Err("ConflictError"), "check"), oldStateSha, rb, FALSE)
      ELSE IF fail = "fs"
        THEN Settle(Step(s, Err(NeedsRollback), "fs"), oldStateSha, rb, FALSE)
      ELSE Settle(commit(Rm(s, path), <<path>>, FALSE, fail), oldStateSha, rb, TRUE)

\* git mv <oldPath> <newPath>: the source must be tracked, the destination
\* free and its parent directory present.
CanGitMv(s, oldPath, newPath) ==
  /\ \E q \in Under(oldPath) : s.index[q] # Absent
  /\ \A q \in Under(newPath) : s.index[q] = Absent
  /\ getFilePathStats(s, oldPath) # "none"
  /\ getFilePathStats(s, newPath) = "none"
  /\ Len(newPath) = 2 => newPath[1] \in s.wt.dirs

Moved(oldPath, newPath, p) ==
  IF Len(oldPath) = 1 THEN <<oldPath[1], p[2]>> ELSE oldPath

GitMv(s, oldPath, newPath) ==
  LET mv(t) == [p \in FilePaths |->
                  IF p \in Under(newPath) THEN t[Moved(oldPath, newPath, p)]
                  ELSE IF p \in Under(oldPath) THEN Absent
                  ELSE t[p]]
  IN  [s EXCEPT !.index = mv(s.index),
                !.wt = [dirs |-> IF Len(oldPath) = 1
                                   THEN (s.wt.dirs \ {oldPath[1]}) \cup {newPath[1]}
                                   ELSE s.wt.dirs,
                        files |-> mv(s.wt.files)]]

\* Variant of renameSinglePath that leaves the destination to git mv.
renameSinglePathWithoutDestCheck(s, oldPath, newPath, fail, rb) ==
  LET oldStateSha == getLatestCommitOfBranch(s, fail)
  IN  IF getFilePathStats(s, oldPath) = "none"
        THEN Settle(Step(s, Err("NotFoundError"), "check"), oldStateSha, rb, FALSE)
      ELSE IF fail = "fs" \/ ~CanGitMv(s, oldPath, newPath)
        THEN Settle(Step(s, Err(NeedsRollback), "fs"), oldStateSha, rb, FALSE)
      ELSE Settle(commit(GitMv(s, oldPath, newPath), <<oldPath, newPath>>, TRUE, fail),
                  oldStateSha, rb, TRUE)

\* renameSinglePath(repoName, oldPath, newPath, userId, branchName, message)
renameSinglePath(s, oldPath, newPath, fail, rb) ==
  LET oldStateSha == getLatestCommitOfBranch(s, fail)
  IN  IF fail = "log"
        THEN Settle(Step(s, Err("GitFileSystemError"), "log"), oldStateSha, rb, FALSE)
      ELSE IF getFilePathStats(s, oldPath) = "none"
        THEN Settle(Step(s, Err("NotFoundError"), "check"), oldStateSha, rb, FALSE)
      ELSE IF getFilePathStats(s, newPath) # "none"
        THEN Settle(Step(s, Err("ConflictError"), "check"), oldStateSha, rb, FALSE)
      ELSE IF fail = "fs" \/ ~CanGitMv(s, oldPath, newPath)
        THEN Settle(Step(s, Err(NeedsRollback), "fs"), oldStateSha, rb, FALSE)
      ELSE Settle(commit(GitMv(s, oldPath, newPath), <<oldPath, newPath>>, TRUE, fail),
                  oldStateSha, rb, TRUE)

\* One element of moveFiles' targetFiles: stat the destination, then rename.
MoveOutcome(s, oldDir, newDir, targetFile) ==
  IF getFilePathStats(s, <<newDir, targetFile>>) # "none" THEN "ConflictError"
  ELSE IF getFilePathStats(s, <<oldDir, targetFile>>) = "none" THEN NeedsRollback
  ELSE "moved"

\* fs.promises.rename of every target file whose chain reaches it
RenameAll(s, oldDir, newDir, targetFiles) ==
  LET moved == {targetFiles[i] : i \in {j \in 1..Len(targetFiles) :
                   MoveOutcome(s, oldDir, newDir, targetFiles[j]) = "moved"}}
  IN  [s EXCEPT !.wt.files =
         [p \in FilePaths |->
            IF p[1] = newDir /\ p[2] \in moved THEN s.wt.files[<<oldDir, p[2]>>]
            ELSE IF p[1] = oldDir /\ p[2] \in moved THEN Absent
            ELSE s.wt.files[p]]]

\* combine(): every chain runs; the first error in list order is returned.
FirstError(s, oldDir, newDir, targetFiles) ==
  LET bad == {i \in 1..Len(targetFiles) :
                MoveOutcome(s, oldDir, newDir, targetFiles[i]) # "moved"}
  IN  IF bad = {} THEN "none"
      ELSE MoveOutcome(s, oldDir, newDir,
                       targetFiles[CHOOSE i \in bad : \A j \in bad : i <= j])

\* moveFiles(repoName, oldPath, newPath, userId, targetFiles, branchName, message)
moveFiles(s, oldPath, newPath, targetFiles, fail, rb) ==
  LET oldStateSha == getLatestCommitOfBranch(s, fail)
      stats == getFilePathStats(s, oldPath)
      s1 == Mkdir(s, newPath[1])
      s2 == RenameAll(s1, oldPath[1], newPath[1], targetFiles)
      e == FirstError(s1, oldPath[1], newPath[1], targetFiles)
  IN  IF fail = "log"
        THEN Settle(Step(s, Err("GitFileSystemError"), "log"), oldStateSha, rb, FALSE)
      ELSE IF stats = "none"
        THEN Settle(Step(s, Err("NotFoundError"), "check"), oldStateSha, rb, FALSE)
      ELSE IF stats # "dir"
        THEN Settle(Step(s, Err("GitFileSystemError"), "check"), oldStateSha, rb, FALSE)
      ELSE IF fail = "fs"
        THEN Settle(Step(s, Err(NeedsRollback), "fs"), oldStateSha, rb, FALSE)
      ELSE IF e # "none"
        THEN Settle(Step(s2, Err(e), "move"), oldStateSha, rb, s2 # s)
      ELSE Settle(commit(s2, <<oldPath, newPath>>, FALSE, fail), oldStateSha, rb, s2 # s)

(***************************************************************************)
(* The roots of the repository on the two volumes, and the operations that *)
(* validate, clone and synchronise them.                                   *)
(***************************************************************************)

\* What can be at <volume>/<repoName>: nothing, a file, a directory that is
\* not a Git repository, or a repository whose origin is the canonical URL,
\* another URL, or is not set.
VolStates ==
  {[root |-> "absent", isRepo |-> FALSE, origin |-> "none"],
   [root |-> "file", isRepo |-> FALSE, origin |-> "none"],
   [root |-> "dir", isRepo |-> FALSE, origin |-> "none"]}
  \cup {[root |-> "dir", isRepo |-> TRUE, origin |-> o] : o \in {"canonical", "other", "none"}}

\* The root of a volume after git clone <originUrl> has succeeded.
ClonedVol == [root |-> "dir", isRepo |-> TRUE, origin |-> "canonical"]

\* A branch of the repository other than the two the service is called with.
OtherBranch == "master"

\* No access token is stored and TokenService has not been constructed.
NoTokens == [db |-> <<>>, calls |-> <<>>]

\* RepoService has served no call yet; the list of whitelisted repositories
\* of the configuration is empty.
NotServed ==
  [whitelist |-> <<>>, op |-> "none", siteName |-> <<>>, backends |-> <<>>,
   threw |-> FALSE, local |-> Ok(""), github |-> Ok(""), value |-> ""]

\* Of a call that repeats the call before it: that call, and the working
\* trees and checked-out branches the repeated call started from.
NoBefore == [op |-> "none", res |-> Ok(""), efs |-> <<>>, checkedOut |-> <<>>]

\* No call of isValidGitRepo, pull, push or clone made yet.
NoSync ==
  [op |-> "none", branch |-> STAGING_BRANCH, isForce |-> FALSE,
   vol |-> [b \in Branches |-> ClonedVol], checkedOut |-> STAGING_BRANCH,
   valid |-> Ok(TRUE), branchOk |-> FALSE, cmds |-> <<>>,
   each |-> [b \in Branches |-> Ok("")], sha |-> "", head |-> 1, res |-> Ok(""),
   before |-> NoBefore]

\* Both volumes hold the cloned repository, each on its own branch.
VolCloned ==
  /\ vol = [b \in Branches |-> ClonedVol]
  /\ checkedOut = [b \in Branches |-> b]
  /\ sync = NoSync
  /\ served = NotServed
  /\ tokens = NoTokens

\* cloneBranch accepts an existing repository with the expected origin
\* whatever branch it has checked out, and leaves the default branch checked
\* out on the staging volume when the checkout after git clone fails.
VolAccepted ==
  /\ vol = [b \in Branches |-> ClonedVol]
  /\ checkedOut \in {[b \in Branches |-> IF b = STAGING_BRANCH THEN c ELSE b] :
                        c \in {STAGING_BRANCH, OtherBranch}}
  /\ sync = NoSync
  /\ served = NotServed
  /\ tokens = NoTokens

\* getEfsVolPathFromBranch: every branch but staging-lite is on the staging volume.
getEfsVolPathFromBranch(branchName) ==
  IF branchName = STAGING_LITE_BRANCH THEN STAGING_LITE_BRANCH ELSE STAGING_BRANCH

\* getEfsVolPath(isStaging), and the default isStaging = true of the git checks.
getEfsVolPath(isStaging) ==
  IF isStaging THEN STAGING_BRANCH ELSE STAGING_LITE_BRANCH

\* getFilePathStats(repoName, "", isStaging): the stat of the root.
RootStats(vs, isStaging, fail) ==
  LET v == vs[getEfsVolPath(isStaging)]
  IN  IF fail = "stat" THEN Err("GitFileSystemError")
      ELSE IF v.root = "absent" THEN Err("NotFoundError")
      ELSE Ok(v.root)

\* git.cwd(<volume>/<repoName>).checkIsRepo(): cwd fails when the path is not
\* a directory.
isGitInitialized(vs, isStaging, fail) ==
  LET v == vs[getEfsVolPath(isStaging)]
  IN  IF fail = "checkIsRepo" \/ v.root # "dir" THEN Err("GitFileSystemError")
      ELSE Ok(v.isRepo)

\* git remote get-url origin, compared with the canonical URL; the command
\* fails outside a repository and when no origin is set.
isOriginRemoteCorrect(vs, isStaging, fail) ==
  LET v == vs[getEfsVolPath(isStaging)]
  IN  IF fail = "getUrl" \/ v.root # "dir" \/ ~v.isRepo \/ v.origin = "none"
        THEN Err("GitFileSystemError")
      ELSE Ok(v.origin = "canonical")

\* isValidGitRepo(repoName, branchName): the stat is of the volume of the
\* branch; isGitInitialized(repoName) and isOriginRemoteCorrect(repoName) are
\* called without isStaging.
isValidGitRepo(vs, branchName, fail) ==
  LET stats == RootStats(vs, branchName # STAGING_LITE_BRANCH, fail)
      init == isGitInitialized(vs, TRUE, fail)
      origin == isOriginRemoteCorrect(vs, TRUE, fail)
  IN  IF ~stats.ok
        THEN IF stats.val = "NotFoundError" THEN Ok(FALSE) ELSE stats
      ELSE IF stats.val # "dir" THEN Ok(FALSE)
      ELSE IF ~init.ok THEN init
      ELSE IF ~init.val THEN Ok(FALSE)
      ELSE IF ~origin.ok THEN origin
      ELSE Ok(origin.val)

\* ensureCorrectBranch(repoName, branchName) in the working tree v whose
\* checked-out branch is co: git rev-parse --abbrev-ref HEAD, then git checkout
\* when the branch differs.
ensureCorrectBranch(v, co, branchName, fail) ==
  IF fail = "revparse" \/ v.root # "dir" \/ ~v.isRepo
    THEN [res |-> Err("GitFileSystemError"), co |-> co]
  ELSE IF co # branchName
    THEN IF fail = "checkout"
           THEN [res |-> Err("GitFileSystemError"), co |-> co]
           ELSE [res |-> Ok(TRUE), co |-> branchName]
  ELSE [res |-> Ok(TRUE), co |-> co]

\* A git command the service has run, and whether it succeeded.
Cmd(args, ok) == [args |-> args, ok |-> ok]

\* What a call of pull or push hands back: the result of isValidGitRepo,
\* whether ensureCorrectBranch succeeded, the git pull / git push commands
\* run, the result, and the branch checked out afterwards.
Synced(valid, branchOk, cmds, res, co) ==
  [valid |-> valid, branchOk |-> branchOk, cmds |-> cmds, res |-> res, co |-> co]

\* The messages of the errors of git pull that pull ignores.
BenignPullMessages ==
  {"but no such ref was fetched.", "error: cannot lock ref",
   "Cannot fast-forward your working tree",
   "Need to specify how to reconcile divergent branches"}

\* The ways git pull ends: it succeeds, or rejects with a GitError or another
\* error carrying a message.
PullOutcomes ==
  {[failed |-> FALSE, isGitError |-> FALSE, message |-> ""]}
  \cup [failed : {TRUE}, isGitError : BOOLEAN,
        message : BenignPullMessages \cup {"Could not resolve hostname github.com"}]

\* The git pull a call has run and how it ended.
PullCmd(outcome) ==
  [args |-> <<"pull">>, ok |-> ~outcome.failed,
   isGitError |-> outcome.isGitError, message |-> outcome.message]

\* pull(repoName, branchName)
pull(vs, co, branchName, fail, outcome) ==
  LET valid == isValidGitRepo(vs, branchName, fail)
      branch == ensureCorrectBranch(vs[getEfsVolPathFromBranch(branchName)], co, branchName, fail)
  IN  IF ~valid.ok THEN Synced(valid, FALSE, <<>>, valid, co)
      ELSE IF ~valid.val
        THEN Synced(valid, FALSE, <<>>, Err("GitFileSystemError"), co)
      ELSE IF ~branch.res.ok THEN Synced(valid, FALSE, <<>>, branch.res, branch.co)
      ELSE Synced(valid, TRUE, <<PullCmd(outcome)>>,
                  IF ~outcome.failed
                       \/ (outcome.isGitError /\ outcome.message \in BenignPullMessages)
                    THEN Ok(getEfsVolPathFromBranch(branchName))
                    ELSE Err("GitFileSystemError"),
                  branch.co)

\* The arguments of the first git push and of the one in the orElse.
PushArgs(branchName, isForce) ==
  <<"push", "origin", branchName>> \o (IF isForce THEN <<"--force">> ELSE <<>>)

RetryPushArgs(isForce) == <<"push">> \o (IF isForce THEN <<"--force">> ELSE <<>>)

\* push(repoName, branchName, isForce): the orElse that retries follows the
\* chain of ensureCorrectBranch and the first git push.
push(vs, co, branchName, isForce, fail, firstOk, retryOk) ==
  LET valid == isValidGitRepo(vs, branchName, fail)
      branch == ensureCorrectBranch(vs[getEfsVolPathFromBranch(branchName)], co, branchName, fail)
      first == Cmd(PushArgs(branchName, isForce), firstOk)
      retry == Cmd(RetryPushArgs(isForce), retryOk)
      done == Ok(getEfsVolPathFromBranch(branchName))
  IN  IF ~valid.ok THEN Synced(valid, FALSE, <<>>, valid, co)
      ELSE IF ~valid.val
        THEN Synced(valid, FALSE, <<>>, Err("GitFileSystemError"), co)
      ELSE IF branch.res.ok /\ firstOk
        THEN Synced(valid, TRUE, <<first>>, done, branch.co)
      ELSE Synced(valid, branch.res.ok,
                  (IF branch.res.ok THEN <<first>> ELSE <<>>) \o <<retry>>,
                  IF retryOk THEN done ELSE Err("GitFileSystemError"),
                  branch.co)

\* cloneBranch(repoName, isStaging). looked is what the volumes look like to
\* the checks of an existing directory; cloneOk and fail are the environment.
\* git clone fails when something is at the destination; for staging a
\* git checkout of the branch follows the clone.
cloneBranch(vs, looked, isStaging, fail, cloneOk) ==
  LET b == getEfsVolPath(isStaging)
      stats == RootStats(vs, isStaging, fail)
      init == isGitInitialized(looked, TRUE, fail)
      origin == isOriginRemoteCorrect(looked, TRUE, fail)
      cloned == cloneOk /\ vs[b].root = "absent"
      out(res, cmds, v, co) == [res |-> res, cmds |-> cmds, v |-> v, co |-> co]
  IN  IF ~stats.ok /\ stats.val # "NotFoundError" THEN out(stats, <<>>, vs[b], "")
      ELSE IF ~stats.ok \/ stats.val # "dir"
        THEN IF ~cloned
               THEN out(Err("GitFileSystemError"), <<Cmd(<<"clone", b>>, FALSE)>>, vs[b], "")
             ELSE IF isStaging /\ fail = "checkout"
               THEN out(Err("GitFileSystemError"), <<Cmd(<<"clone", b>>, TRUE)>>,
                        ClonedVol, OtherBranch)
             ELSE out(Ok(b), <<Cmd(<<"clone", b>>, TRUE)>>, ClonedVol, b)
      ELSE IF ~init.ok THEN out(init, <<>>, vs[b], "")
      ELSE IF ~init.val THEN out(Err("GitFileSystemError"), <<>>, vs[b], "")
      ELSE IF ~origin.ok THEN out(origin, <<>>, vs[b], "")
      ELSE IF ~origin.val THEN out(Err("GitFileSystemError"), <<>>, vs[b], "")
      ELSE out(Ok(b), <<>>, vs[b], "")

\* clone(repoName): combine of the two cloneBranch calls, which run
\* together; the checks staging-lite makes of the staging volume happen
\* before or after the clone of staging (liteSeesClone).
clone(vs, failStaging, failLite, cloneOk, cloneLiteOk, liteSeesClone) ==
  LET staging == cloneBranch(vs, vs, TRUE, failStaging, cloneOk)
      looked == IF liteSeesClone THEN [vs EXCEPT ![STAGING_BRANCH] = staging.v] ELSE vs
      lite == cloneBranch(vs, looked, FALSE, failLite, cloneLiteOk)
      each == [b \in Branches |-> IF b = STAGING_BRANCH THEN staging ELSE lite]
  IN  [res |-> IF ~staging.res.ok THEN staging.res
               ELSE IF ~lite.res.ok THEN lite.res
               ELSE Ok(STAGING_BRANCH),
       each |-> [b \in Branches |-> each[b].res],
       cmds |-> staging.cmds \o lite.cmds,
       vol |-> [b \in Branches |-> each[b].v],
       co |-> [b \in Branches |-> each[b].co]]

\* The commits reachable from commit i through parents: the history of a
\* branch that points to i.
RECURSIVE History(_, _)
History(cs, i) == IF i = 0 THEN {} ELSE {i} \cup History(cs, cs[i].parent)

\* What git finds for a sha in the object database of the working tree s:
\* a commit of the history of the branch, another commit, a blob, or nothing.
ShaKind(s, sha) ==
  LET i == CommitIndex(s.commits, sha)
  IN  IF i \in History(s.commits, s.head) THEN "history"
      ELSE IF i # 0 THEN "commit"
      ELSE IF \E j \in 1..Len(s.commits), p \in FilePaths :
                s.commits[j].tree[p] # Absent /\ BlobSha(s.commits[j].tree[p]) = sha
        THEN "blob"
      ELSE "none"

\* updateRepoState(repoName, branchName, sha) on the working tree s:
\* git cat-file -t <sha> rejects when the repository holds no object of that
\* name; git reset --hard <sha> rejects for an object that is not a commit.
updateRepoState(vs, co, s, branchName, sha, fail, resetOk, firstOk, retryOk) ==
  LET valid == isValidGitRepo(vs, branchName, fail)
      branch == ensureCorrectBranch(vs[getEfsVolPathFromBranch(branchName)], co, branchName, fail)
      kind == ShaKind(s, sha)
      catFile == Cmd(<<"cat-file", "-t", sha>>, kind # "none")
      reset == Cmd(<<"reset", "--hard", sha>>, resetOk /\ kind \in {"history", "commit"})
      pushed == push(vs, branch.co, branchName, TRUE, fail, firstOk, retryOk)
      out(branchOk, cmds, res, co1, s1) ==
        [valid |-> valid, branchOk |-> branchOk, cmds |-> cmds, res |-> res,
         co |-> co1, s |-> s1]
  IN  IF ~valid.ok THEN out(FALSE, <<>>, valid, co, s)
      ELSE IF ~valid.val THEN out(FALSE, <<>>, Err("GitFileSystemError"), co, s)
      ELSE IF ~branch.res.ok THEN out(FALSE, <<>>, branch.res, branch.co, s)
      ELSE IF ~catFile.ok THEN out(TRUE, <<catFile>>, Err("BadRequestError"), branch.co, s)
      ELSE IF ~reset.ok
        THEN out(TRUE, <<catFile, reset>>, Err("GitFileSystemError"), branch.co, s)
      ELSE out(TRUE, <<catFile, reset>> \o pushed.cmds,
               IF pushed.res.ok THEN Ok("") ELSE pushed.res,
               pushed.co, GitResetHard(s, sha))

\* growthbook feature IS_GGS_ENABLED, an attribute of the site
IsGgsEnabled(repoName) == repoName = "s1"

Next1(r, e) == nextErrs' = [nextErrs EXCEPT ![r] = Append(@, e)]

NotRecovered == [ran |-> FALSE, done |-> <<>>]

\* A request whose handler has made no call of the service yet.
NotRunning ==
  [op |-> "none", branch |-> STAGING_BRANCH, path |-> <<>>, content |-> "",
   oldStateSha |-> "", res |-> Ok(""), met |-> {}, held |-> {}]

InitGate ==
  /\ pc = [r \in Req |-> "idle"]
  /\ site = [r \in Req |-> "s1"]
  /\ wrapper = [r \in Req |-> "write"]
  /\ capt = [r \in Req |-> "none"]
  /\ recovered = [r \in Req |-> NotRecovered]
  /\ nextErrs = [r \in Req |-> <<>>]
  /\ mutex = {}
  /\ seen = [r \in Req |-> [fileLock |-> "unchecked", lock |-> "untried", unlocks |-> 0]]
  /\ running = [r \in Req |-> NotRunning]
  /\ FsFresh
  /\ VolCloned

\* A request arrives at a route attached with one of the two wrappers.
Start(r) ==
  /\ UNCHANGED fsVars
  /\ pc[r] = "idle"
  /\ \E s \in Repos, w \in Wrappers :
       /\ site' = [site EXCEPT ![r] = s]
       /\ wrapper' = [wrapper EXCEPT ![r] = w]
       /\ pc' = [pc EXCEPT ![r] =
                   IF w = "rollback" \/ IsGgsEnabled(s) THEN "fileLock" ELSE "lock"]
  /\ UNCHANGED <<capt, recovered, nextErrs, mutex, seen>>

\* Variant of handleGitFileLock that reports the lock file and goes on to lock.
HandleGitFileLockAndGoOn(r) ==
  /\ UNCHANGED fsVars
  /\ pc[r] = "fileLock"
  /\ \E res \in {"err", "locked", "free"} :
       /\ seen' = [seen EXCEPT ![r].fileLock = res]
       /\ IF res = "free"
            THEN UNCHANGED nextErrs
            ELSE Next1(r, IF res = "err" THEN "GitFileSystemError" ELSE "LockedError")
       /\ pc' = [pc EXCEPT ![r] = "lock"]
  /\ UNCHANGED <<site, wrapper, capt, recovered, mutex>>

\* handleGitFileLock: the stat of .git/index.lock errs, finds the file, or not.
HandleGitFileLock(r) ==
  /\ UNCHANGED fsVars
  /\ pc[r] = "fileLock"
  /\ \E res \in {"err", "locked", "free"} :
       /\ seen' = [seen EXCEPT ![r].fileLock = res]
       /\ IF res = "free"
            THEN UNCHANGED nextErrs /\ pc' = [pc EXCEPT ![r] = "lock"]
            ELSE /\ Next1(r, IF res = "err" THEN "GitFileSystemError" ELSE "LockedError")
                 /\ pc' = [pc EXCEPT ![r] = "done"]
  /\ UNCHANGED <<site, wrapper, capt, recovered, mutex>>

\* try { await lock(siteName) } catch (err) { next(err); return }
Lock(r) ==
  /\ UNCHANGED fsVars
  /\ pc[r] = "lock"
  /\ seen' = [seen EXCEPT ![r].lock = IF CanLock(mutex, site[r]) THEN "acquired" ELSE "failed"]
  /\ IF CanLock(mutex, site[r])
       THEN /\ mutex' = lock(mutex, site[r])
            /\ pc' = [pc EXCEPT ![r] =
                        IF wrapper[r] = "write" THEN "handler" ELSE "capture"]
            /\ UNCHANGED nextErrs
       ELSE /\ Next1(r, "LockError")
            /\ pc' = [pc EXCEPT ![r] = "done"]
            /\ UNCHANGED mutex
  /\ UNCHANGED <<site, wrapper, capt, recovered>>

CaptureOutcomes(repoName) ==
  IF IsGgsEnabled(repoName)
    THEN {"ok", "stagingErr", "liteErr", "bothErr", "emptySha"}
    ELSE {"ok", "throw"}

\* The rollback wrapper reads the latest commits of staging and staging-lite.
Capture(r) ==
  /\ UNCHANGED fsVars
  /\ pc[r] = "capture"
  /\ \E out \in CaptureOutcomes(site[r]) :
       /\ capt' = [capt EXCEPT ![r] = out]
       /\ pc' = [pc EXCEPT ![r] = IF out = "ok" THEN "handler" ELSE "captureUnlock"]
  /\ UNCHANGED <<site, wrapper, recovered, nextErrs, mutex, seen>>

CaptureErrors(out) ==
  CASE out = "stagingErr" -> <<"GitFileSystemError">>
    [] out = "liteErr" -> <<"GitFileSystemError">>
    [] out = "bothErr" -> <<"GitFileSystemError", "GitFileSystemError">>
    [] out = "throw" -> <<"Error">>
    [] OTHER -> <<>>

\* Variant of the return after a failed capture that leaves the lock held.
CaptureReturnKeepingLock(r) ==
  /\ UNCHANGED fsVars
  /\ pc[r] = "captureUnlock"
  /\ nextErrs' = [nextErrs EXCEPT ![r] = @ \o CaptureErrors(capt[r])]
  /\ pc' = [pc EXCEPT ![r] = "done"]
  /\ UNCHANGED <<site, wrapper, capt, recovered, mutex, seen>>

\* await unlock(siteName); next(...) for each failed result; return
CaptureUnlock(r) ==
  /\ UNCHANGED fsVars
  /\ pc[r] = "captureUnlock"
  /\ mutex' = unlock(mutex, site[r])
  /\ seen' = [seen EXCEPT ![r].unlocks = @ + 1]
  /\ nextErrs' = [nextErrs EXCEPT ![r] = @ \o CaptureErrors(capt[r])]
  /\ pc' = [pc EXCEPT ![r] = "done"]
  /\ UNCHANGED <<site, wrapper, capt, recovered>>

\* Variant of the handler step whose rejection goes straight to the unlock.
HandlerWithoutRecovery(r) ==
  /\ UNCHANGED fsVars
  /\ pc[r] = "handler"
  /\ \E ok \in BOOLEAN :
       pc' = [pc EXCEPT ![r] = IF ok THEN "finalUnlock" ELSE "catchUnlock"]
  /\ UNCHANGED <<site, wrapper, capt, recovered, nextErrs, mutex, seen>>

\* await routeHandler(req, res, next): it resolves or rejects.
Handler(r) ==
  /\ UNCHANGED fsVars
  /\ pc[r] = "handler"
  /\ \E ok \in BOOLEAN :
       pc' = [pc EXCEPT ![r] =
                IF ok THEN "finalUnlock"
                ELSE IF wrapper[r] = "write" THEN "catchUnlock" ELSE "recover"]
  /\ UNCHANGED <<site, wrapper, capt, recovered, nextErrs, mutex, seen>>

\* The steps of the catch of the rollback wrapper, in the order they are awaited.
RecoverySteps(repoName) ==
  IF IsGgsEnabled(repoName)
    THEN <<"rollback staging", "rollback staging-lite", "push --force">>
    ELSE <<"revertCommit staging", "revertCommit staging-lite">>

RecoveryFailed(r) == recovered[r].ran /\ recovered[r].done # RecoverySteps(site[r])

\* The catch of the rollback wrapper: each step runs under backOff; a step that
\* fails all its attempts throws, and the steps after it are not run.
Recover(r) ==
  /\ UNCHANGED fsVars
  /\ pc[r] = "recover"
  /\ \E n \in 0..Len(RecoverySteps(site[r])) :
       recovered' = [recovered EXCEPT
                       ![r] = [ran |-> TRUE, done |-> SubSeq(RecoverySteps(site[r]), 1, n)]]
  /\ pc' = [pc EXCEPT ![r] = "catchUnlock"]
  /\ UNCHANGED <<site, wrapper, capt, nextErrs, mutex, seen>>

\* In the catch: await unlock(siteName); next(err)
CatchUnlock(r) ==
  /\ UNCHANGED fsVars
  /\ pc[r] = "catchUnlock"
  /\ mutex' = unlock(mutex, site[r])
  /\ seen' = [seen EXCEPT ![r].unlocks = @ + 1]
  /\ Next1(r, IF RecoveryFailed(r) THEN "RetryError" ELSE "HandlerError")
  /\ pc' = [pc EXCEPT ![r] = "finalUnlock"]
  /\ UNCHANGED <<site, wrapper, capt, recovered>>

\* After the awaited handler promise: try { await unlock(siteName) } catch (err) { next(err) }
FinalUnlock(r) ==
  /\ UNCHANGED fsVars
  /\ pc[r] = "finalUnlock"
  /\ mutex' = unlock(mutex, site[r])
  /\ seen' = [seen EXCEPT ![r].unlocks = @ + 1]
  /\ pc' = [pc EXCEPT ![r] = "done"]
  /\ UNCHANGED <<site, wrapper, capt, recovered, nextErrs>>

NextGate ==
  \E r \in Req :
    \/ Start(r)
    \/ HandleGitFileLock(r)
    \/ Lock(r)
    \/ Capture(r)
    \/ CaptureUnlock(r)
    \/ Handler(r)
    \/ Recover(r)
    \/ CatchUnlock(r)
    \/ FinalUnlock(r)

SpecGate == InitGate /\ [][NextGate]_vars

(***************************************************************************)
(* Spec: calls of the mutating operations on the staging working tree,     *)
(* one at a time (the callers hold the repository's gate).                 *)
(***************************************************************************)
GateIdle ==
  /\ pc = [r \in Req |-> "idle"]
  /\ site = [r \in Req |-> "s1"]
  /\ wrapper = [r \in Req |-> "write"]
  /\ capt = [r \in Req |-> "none"]
  /\ recovered = [r \in Req |-> NotRecovered]
  /\ nextErrs = [r \in Req |-> <<>>]
  /\ mutex = {}
  /\ seen = [r \in Req |-> [fileLock |-> "unchecked", lock |-> "untried", unlocks |-> 0]]
  /\ running = [r \in Req |-> NotRunning]

Init == GateIdle /\ FsStart /\ VolCloned

Failures == {"none", "branchLog", "fs", "valid", "branch", "add", "commit"}
RollbackFailures == {"none", "reset", "clean"}
OldShas == {BlobSha(c) : c \in Contents}
TargetLists == {<<>>} \cup {<<n>> : n \in Names}
                 \cup ({<<n, m>> : n \in Names, m \in Names} \ {<<n, n>> : n \in Names})

\* The steps of commit that come after ensureCorrectBranch has succeeded.
PastBranchCheck == {"add", "commit", "done"}

\* An injected failure counts when the call reaches the step it is injected
\* at, and a failure of rollback when rollback is invoked. A failure of
\* git log <branch> does not stop the call.
Reached(out, fail, rb) ==
  /\ fail \in {"none", "branchLog"} \/ out.stage = fail
  /\ rb = "none" \/ out.rolledBack

\* The call returns: the working tree of the branch is as the operation left it.
Return(op, branchName, path, dest, oldSha, out) ==
  /\ calls' = calls + 1
  /\ efs' = [efs EXCEPT ![branchName] =
               [wt |-> out.s.wt, index |-> out.s.index,
                commits |-> out.s.commits, head |-> out.s.head]]
  /\ consumed' = IF op = "update" /\ out.res.ok /\ out.res.val # ""
                   THEN [consumed EXCEPT ![branchName][path] = @ \cup {oldSha}]
                   ELSE consumed
  /\ gone' = IF branchName # STAGING_BRANCH \/ ~out.res.ok THEN gone
             ELSE IF op = "delete" THEN gone \cup {path}
             ELSE {p \in gone : out.s.wt.files[p] = Absent}
  /\ last' = Call(op, branchName, path, dest, oldSha,
                  op = "update" /\ Len(path) = 2 /\ oldSha \in consumed[branchName][path],
                  Repo(efs, branchName), checkedOut[branchName], out)
  /\ checkedOut' = IF out.stage \in PastBranchCheck
                     THEN [checkedOut EXCEPT ![branchName] =
                             ensureCorrectBranch(vol[branchName], @, branchName, "none").co]
                     ELSE checkedOut
  /\ UNCHANGED <<vol, sync, running, served, tokens>>
  /\ UNCHANGED gateVars

\* At the root of the working tree create is called with the names of the
\* directories that exist; the paths of the model have no files at the root.
DoCreate ==
  /\ calls < MaxCalls
  /\ \E b \in Branches, d \in Dirs \cup {""}, n \in Names \cup Dirs, c \in Contents,
        fail \in Failures \cup {"mkdir"}, rb \in RollbackFailures :
       LET out == create(Repo(efs, b), d, n, c, fail, rb)
       IN  /\ IF d = "" THEN n \in efs[b].wt.dirs ELSE n \in Names
           /\ Reached(out, fail, rb)
           /\ Return("create", b, IF d = "" THEN <<n>> ELSE <<d, n>>, <<>>, "", out)

DoUpdate ==
  /\ calls < MaxCalls
  /\ \E b \in Branches, p \in Paths, c \in Contents, oldSha \in OldShas,
        fail \in Failures, rb \in RollbackFailures :
       LET out == update(Repo(efs, b), p, c, oldSha, fail, rb)
       IN  Reached(out, fail, rb) /\ Return("update", b, p, <<>>, oldSha, out)

DoDelete ==
  /\ calls < MaxCalls
  /\ \E b \in Branches, p \in Paths, oldSha \in OldShas, isDir \in BOOLEAN,
        fail \in Failures, rb \in RollbackFailures :
       LET out == delete(Repo(efs, b), p, oldSha, isDir, fail, rb)
       IN  (isDir => oldSha = "h1") /\ Reached(out, fail, rb)
           /\ Return(IF isDir THEN "deleteDir" ELSE "delete", b, p, <<>>, oldSha, out)

DoRenameSinglePath ==
  /\ calls < MaxCalls
  /\ \E b \in Branches, p \in Paths, q \in Paths,
        fail \in Failures, rb \in RollbackFailures :
       LET out == renameSinglePath(Repo(efs, b), p, q, fail, rb)
       IN  Len(p) = Len(q) /\ Reached(out, fail, rb)
           /\ Return("renameSinglePath", b, p, q, "", out)

DoMoveFiles ==
  /\ calls < MaxCalls
  /\ \E b \in Branches, p \in DirPaths \cup {<<"d1", "a">>}, q \in DirPaths,
        targetFiles \in TargetLists, fail \in Failures, rb \in RollbackFailures :
       LET out == moveFiles(Repo(efs, b), p, q, targetFiles, fail, rb)
       IN  Reached(out, fail, rb)
           /\ Return("moveFiles", b, p, <<q[1], targetFiles>>, "", out)

Next ==
  \/ DoCreate
  \/ DoUpdate
  \/ DoDelete
  \/ DoRenameSinglePath
  \/ DoMoveFiles

Spec == Init /\ [][Next]_vars

(***************************************************************************)
(* commit called on its own, among calls that write to the working tree.   *)
(***************************************************************************)

\* pathSpec values: the lists of at most MaxPathSpec of these paths.
CommitPaths == {<<"d1">>, <<"d1", "a">>, <<"d2", "a">>}
PathSpecs == UNION {[1..n -> CommitPaths] : n \in 0..MaxPathSpec}

\* commit returns what its chain ends with; no rollback follows it.
DoCommit ==
  /\ calls < MaxCalls
  /\ \E b \in Branches, pathSpec \in PathSpecs, skipGitAdd \in BOOLEAN,
        fail \in Failures \ {"fs", "branchLog"} :
       LET c == commit(Repo(efs, b), pathSpec, skipGitAdd, fail)
           out == [s |-> c.s, res |-> c.res, stage |-> c.stage,
                   mutated |-> FALSE, rolledBack |-> FALSE, rbOk |-> FALSE,
                   target |-> "", msg |-> IF c.res.ok \/ c.res.val # NeedsRollback THEN ""
                           ELSE MessageAt(c.stage)]
       IN  Reached(out, fail, "none") /\ Return("commit", b, <<>>, pathSpec, "", out)

NextCommit ==
  \/ DoCommit
  \/ DoCreate
  \/ DoUpdate
  \/ DoDelete

SpecCommit == Init /\ [][NextCommit]_vars

\* The mutating operations on volumes that clone has accepted as they were.
InitAccepted == GateIdle /\ FsFresh /\ VolAccepted

SpecAccepted == InitAccepted /\ [][Next]_vars

(***************************************************************************)
(* Calls of isValidGitRepo, pull, push and clone on volumes in any state.  *)
(***************************************************************************)

\* The volumes hold anything; a repository on the staging volume is on the
\* staging branch or on another one.
InitSync ==
  /\ GateIdle
  /\ FsFresh \/ FsRolledBack
  /\ vol \in IF efs[STAGING_BRANCH].commits = <<SeedCommit>>
               THEN [Branches -> VolStates]
               ELSE {[b \in Branches |-> ClonedVol]}
  /\ checkedOut \in {[b \in Branches |-> IF b = STAGING_BRANCH THEN c ELSE b] :
                        c \in {STAGING_BRANCH} \cup
                              (IF vol[STAGING_BRANCH].isRepo THEN {OtherBranch} ELSE {})}
  /\ sync = NoSync
  /\ served = NotServed
  /\ tokens = NoTokens

SyncFailures == {"none", "stat", "checkIsRepo", "getUrl", "revparse", "checkout"}

\* What is recorded of a call: its arguments, the volumes, the checked-out
\* branch and the commit of the branch it started from, and what it did.
SyncCall(op, branchName, isForce, out) ==
  [op |-> op, branch |-> branchName, isForce |-> isForce,
   vol |-> vol, checkedOut |-> checkedOut[getEfsVolPathFromBranch(branchName)],
   valid |-> out.valid, branchOk |-> out.branchOk, cmds |-> out.cmds,
   each |-> [b \in Branches |-> out.res], sha |-> "",
   head |-> efs[getEfsVolPathFromBranch(branchName)].head, res |-> out.res,
   before |-> NoBefore]

DoIsValidGitRepo ==
  /\ \E b \in Branches, fail \in SyncFailures :
       LET valid == isValidGitRepo(vol, b, fail)
       IN  sync' = SyncCall("isValidGitRepo", b, FALSE,
                            Synced(valid, FALSE, <<>>, valid, checkedOut[b]))
  /\ UNCHANGED <<gateVars, running, served, tokens, efs, consumed, gone, calls, last, checkedOut, vol>>

DoPull ==
  /\ \E b \in Branches, fail \in SyncFailures, outcome \in PullOutcomes :
       LET out == pull(vol, checkedOut[b], b, fail, outcome)
       IN  /\ sync' = SyncCall("pull", b, FALSE, out)
           /\ checkedOut' = [checkedOut EXCEPT ![b] = out.co]
  /\ UNCHANGED <<gateVars, running, served, tokens, efs, consumed, gone, calls, last, vol>>

DoPush ==
  /\ \E b \in Branches, isForce \in BOOLEAN, fail \in SyncFailures,
        firstOk \in BOOLEAN, retryOk \in BOOLEAN :
       LET out == push(vol, checkedOut[b], b, isForce, fail, firstOk, retryOk)
       IN  /\ sync' = SyncCall("push", b, isForce, out)
           /\ checkedOut' = [checkedOut EXCEPT ![b] = out.co]
  /\ UNCHANGED <<gateVars, running, served, tokens, efs, consumed, gone, calls, last, vol>>

DoClone ==
  /\ \E failed \in Branches, fail \in SyncFailures,
        cloneOk \in BOOLEAN, cloneLiteOk \in BOOLEAN, liteSeesClone \in BOOLEAN :
       LET failStaging == IF failed = STAGING_BRANCH THEN fail ELSE "none"
           failLite == IF failed = STAGING_LITE_BRANCH THEN fail ELSE "none"
           out == clone(vol, failStaging, failLite, cloneOk, cloneLiteOk, liteSeesClone)
       IN  /\ sync' = [op |-> "clone", branch |-> STAGING_BRANCH, isForce |-> FALSE,
                       vol |-> vol, checkedOut |-> checkedOut[STAGING_BRANCH],
                       valid |-> Ok(TRUE), branchOk |-> FALSE, cmds |-> out.cmds,
                       each |-> out.each, sha |-> "",
                       head |-> efs[STAGING_BRANCH].head, res |-> out.res,
                       before |-> NoBefore]
           /\ vol' = out.vol
           /\ checkedOut' = [b \in Branches |->
                               IF out.co[b] = "" THEN checkedOut[b] ELSE out.co[b]]
  /\ UNCHANGED <<gateVars, running, served, tokens, efs, consumed, gone, calls, last>>

\* sha values: the commits of the repository, a blob, and a name of no object.
Shas(s) == {CommitSha(i) : i \in 1..Len(s.commits)} \cup {BlobSha("c1"), CommitSha(8)}

DoUpdateRepoState ==
  /\ \E b \in Branches, fail \in SyncFailures,
        resetOk \in BOOLEAN, firstOk \in BOOLEAN, retryOk \in BOOLEAN :
     \E sha \in Shas(Repo(efs, b)) :
       \* the outcome of a push is drawn only when the reset lets it run
       LET out == updateRepoState(vol, checkedOut[b], Repo(efs, b), b, sha, fail,
                                  resetOk, firstOk, retryOk)
       IN  /\ resetOk \/ (firstOk /\ retryOk)
           /\ sync' = [SyncCall("updateRepoState", b, TRUE, out) EXCEPT !.sha = sha]
           /\ checkedOut' = [checkedOut EXCEPT ![b] = out.co]
           /\ efs' = [efs EXCEPT ![b] =
                        [wt |-> out.s.wt, index |-> out.s.index,
                         commits |-> out.s.commits, head |-> out.s.head]]
  /\ UNCHANGED <<gateVars, running, served, tokens, consumed, gone, calls, last, vol>>

NextSync ==
  \/ DoIsValidGitRepo
  \/ DoPull
  \/ DoPush
  \/ DoClone
  \/ DoUpdateRepoState

SpecSync == InitSync /\ [][NextSync]_vars

(***************************************************************************)
(* isValidGitRepo called again and again, among calls of clone.            *)
(***************************************************************************)

\* Variant of the repeated call that also checks the branch out.
DoIsValidGitRepoAgainCheckingOut ==
  /\ sync.op = "isValidGitRepo"
  /\ \E fail \in SyncFailures :
       LET valid == isValidGitRepo(vol, sync.branch, fail)
           b == getEfsVolPathFromBranch(sync.branch)
       IN  /\ sync' = [SyncCall("isValidGitRepo", sync.branch, FALSE,
                                Synced(valid, FALSE, <<>>, valid, checkedOut[sync.branch]))
                         EXCEPT !.before = [op |-> sync.op, res |-> sync.res,
                                            efs |-> efs, checkedOut |-> checkedOut]]
           /\ checkedOut' = [checkedOut EXCEPT ![b] =
                               ensureCorrectBranch(vol[b], @, sync.branch, fail).co]
  /\ UNCHANGED <<gateVars, running, served, tokens, efs, consumed, gone, calls, last, vol>>

\* isValidGitRepo called once more with the arguments of the call before it.
DoIsValidGitRepoAgain ==
  /\ sync.op = "isValidGitRepo"
  /\ \E fail \in SyncFailures :
       LET valid == isValidGitRepo(vol, sync.branch, fail)
       IN  sync' = [SyncCall("isValidGitRepo", sync.branch, FALSE,
                             Synced(valid, FALSE, <<>>, valid, checkedOut[sync.branch]))
                      EXCEPT !.before = [op |-> sync.op, res |-> sync.res,
                                         efs |-> efs, checkedOut |-> checkedOut]]
  /\ UNCHANGED <<gateVars, running, served, tokens, efs, consumed, gone, calls, last, checkedOut, vol>>

NextValid ==
  \/ DoIsValidGitRepo
  \/ DoIsValidGitRepoAgain
  \/ DoClone

SpecValid == InitSync /\ [][NextValid]_vars

(***************************************************************************)
(* SpecRepo: RepoService, which serves read, readDirectory, update and     *)
(* getLatestCommitOfBranch from the local Git file system for the          *)
(* repositories its configuration whitelists, and from GitHubService, the  *)
(* class it extends, for the others. Strings are sequences of characters.  *)
(***************************************************************************)
MaxConfig == 3

Chars == {"x", "y", ","}
Strings(n) == UNION {[1..k -> Chars] : k \in 0..n}

\* sessionData.siteName: a name has no comma
SiteNames == {s \in Strings(2) : \A i \in 1..Len(s) : s[i] # ","}

\* The files the calls are made for: one that exists and one that does not.
RepoFiles == {<<"d1", "a">>, <<"d2", "a">>}

\* config.get("featureFlags.ggsWhitelistedRepos")
WHITELISTED_GIT_SERVICE_REPOS == Strings(MaxConfig)

RECURSIVE Split(_)
\* String.prototype.split(","): the pieces between the commas
Split(s) ==
  IF \A i \in 1..Len(s) : s[i] # "," THEN <<s>>
  ELSE LET i == CHOOSE k \in 1..Len(s) : s[k] = "," /\ \A j \in 1..(k - 1) : s[j] # ","
       IN  <<SubSeq(s, 1, i - 1)>> \o Split(SubSeq(s, i + 1, Len(s)))

\* Variant of isRepoWhitelisted that looks for the name in the string itself.
isRepoWhitelistedInString(whitelist, repoName) ==
  \E i \in 0..(Len(whitelist) - Len(repoName)) :
    SubSeq(whitelist, i + 1, i + Len(repoName)) = repoName

\* isRepoWhitelisted(repoName): WHITELISTED_GIT_SERVICE_REPOS.split(",").includes(repoName)
isRepoWhitelisted(whitelist, repoName) ==
  \E i \in 1..Len(Split(whitelist)) : Split(whitelist)[i] = repoName

RepoOps == {"read", "readDirectory", "update", "getLatestCommitOfBranch"}

\* What the method of GitHubService returns or throws: a value from GitHub.
GitHubResults(op) ==
  {Err("GitHubError"),
   Ok(CASE op = "read" -> [content |-> "github", sha |-> "g1"]
        [] op = "readDirectory" -> {}
        [] op = "update" -> [newSha |-> "g2"]
        [] OTHER -> [sha |-> "g3"])}

\* What RepoService does with the result of a backend: it throws the error
\* of an err result of the Git file system, returns its value, as newSha for
\* update, and passes on what GitHubService returns or throws.
RepoServiceCall(whitelist, op, siteName, local, github) ==
  IF isRepoWhitelisted(whitelist, siteName)
    THEN [whitelist |-> whitelist, op |-> op, siteName |-> siteName,
          backends |-> <<"GitFileSystemService">>, threw |-> ~local.ok,
          local |-> local, github |-> Ok(""),
          value |-> IF local.ok /\ op = "update" THEN [newSha |-> local.val] ELSE local.val]
    ELSE [whitelist |-> whitelist, op |-> op, siteName |-> siteName,
          backends |-> <<"GitHubService">>, threw |-> ~github.ok,
          local |-> Ok(""), github |-> github, value |-> github.val]

\* RepoService calls the Git file system without a branch name: the calls run
\* in the working tree of the staging volume.
LocalTree == Repo(efs, STAGING_BRANCH)

\* The call leaves the working tree as the backend it used left it.
Serve(op, siteName, local, github, s) ==
  /\ calls' = calls + 1
  /\ served' = RepoServiceCall(served.whitelist, op, siteName, local, github)
  /\ efs' = IF isRepoWhitelisted(served.whitelist, siteName)
              THEN [efs EXCEPT ![STAGING_BRANCH] = Stored(s)]
              ELSE efs
  /\ UNCHANGED <<gateVars, running, consumed, gone, last, checkedOut, vol, sync, tokens>>

\* RepoService.read(sessionData, {fileName, directoryName})
RepoRead ==
  /\ calls < MaxCalls
  /\ \E siteName \in SiteNames, p \in RepoFiles, github \in GitHubResults("read") :
       LET r == read(LocalTree, p)
       IN  Serve("read", siteName,
                 IF r.ok THEN Ok([content |-> r.content, sha |-> r.sha]) ELSE Err(r.val),
                 github, LocalTree)

\* RepoService.readDirectory(sessionData, {directoryName})
RepoReadDirectory ==
  /\ calls < MaxCalls
  /\ \E siteName \in SiteNames, p \in {<<>>, <<"d1">>, <<"d2">>},
        github \in GitHubResults("readDirectory") :
       Serve("readDirectory", siteName, listDirectoryContents(LocalTree, p),
             github, LocalTree)

\* RepoService.update(sessionData, {fileContent, sha, fileName, directoryName})
RepoUpdate ==
  /\ calls < MaxCalls
  /\ \E siteName \in SiteNames, p \in RepoFiles, c \in Contents, oldSha \in OldShas,
        fail \in {"none", "commit"}, github \in GitHubResults("update") :
       LET out == update(LocalTree, p, c, oldSha, fail, "none")
       IN  /\ Reached(out, fail, "none")
           /\ Serve("update", siteName, out.res, github, out.s)

\* RepoService.getLatestCommitOfBranch(sessionData, branchName)
RepoGetLatestCommitOfBranch ==
  /\ calls < MaxCalls
  /\ \E siteName \in SiteNames, ok \in BOOLEAN,
        github \in GitHubResults("getLatestCommitOfBranch") :
       Serve("getLatestCommitOfBranch", siteName,
             IF ok THEN Ok([sha |-> getLatestCommitOfBranch(LocalTree, "none")])
             ELSE Err("GitFileSystemError"),
             github, LocalTree)

NextRepo ==
  \/ RepoRead
  \/ RepoReadDirectory
  \/ RepoUpdate
  \/ RepoGetLatestCommitOfBranch

InitRepo ==
  /\ GateIdle
  /\ FsFresh
  /\ vol = [b \in Branches |-> ClonedVol]
  /\ checkedOut = [b \in Branches |-> b]
  /\ sync = NoSync
  /\ served \in {[NotServed EXCEPT !.whitelist = w] : w \in WHITELISTED_GIT_SERVICE_REPOS}
  /\ tokens = NoTokens

SpecRepo == InitRepo /\ [][NextRepo]_vars

(***************************************************************************)
(* SpecRace: concurrent requests for one site that is served from the Git  *)
(* file system. A request runs create under attachWriteRouteHandlerWrapper *)
(* or read under attachReadRouteHandlerWrapper, one step per await, so the *)
(* steps of the requests interleave as the event loop lets them. No call   *)
(* of the file system or of git fails for a reason of the environment, and *)
(* every request is for the site s1.                                       *)
(***************************************************************************)
\* The paths of the requests: a file that exists, and a new file in a new
\* directory.
RacePaths == {<<"d1", "a">>, <<"d2", "a">>}

\* The requests that have acquired the advisory lock and not released it yet.
Holders == {q \in Req : seen[q].lock = "acquired"}

\* A step of the handler of request r: the branch is left as s, and the call
\* goes on at the next step, or returns res and the handler resolves or rejects.
Goes(r, s, to) ==
  /\ efs' = [efs EXCEPT ![running[r].branch] = Stored(s)]
  /\ pc' = [pc EXCEPT ![r] = to]
  /\ UNCHANGED <<running, nextErrs>>

Returns(r, s, res) ==
  /\ efs' = [efs EXCEPT ![running[r].branch] = Stored(s)]
  /\ running' = [running EXCEPT ![r].res = res]
  /\ pc' = [pc EXCEPT ![r] = IF res.ok THEN "finalUnlock" ELSE "catchUnlock"]
  /\ UNCHANGED nextErrs

RaceFrame ==
  UNCHANGED <<site, capt, recovered, consumed, gone, calls, last, checkedOut, vol, sync, served,
              tokens>>

\* A request arrives: a create under the write wrapper, which starts with
\* handleGitFileLock as the site has the feature, or a read under the read
\* wrapper, which invokes its handler at once.
RaceStart(r) ==
  /\ pc[r] = "idle"
  /\ \E op \in {"create", "read"}, b \in Branches, p \in RacePaths, c \in Contents :
       /\ op = "read" => c = "c1"
       /\ running' = [running EXCEPT ![r] =
                        [NotRunning EXCEPT !.op = op, !.branch = b, !.path = p,
                                           !.content = IF op = "read" THEN "" ELSE c]]
       /\ wrapper' = [wrapper EXCEPT ![r] = IF op = "read" THEN "read" ELSE "write"]
       /\ pc' = [pc EXCEPT ![r] = IF op = "read" THEN "read" ELSE "fileLock"]
  /\ UNCHANGED <<efs, nextErrs, mutex, seen>>
  /\ RaceFrame

\* The requests whose git add or git commit on the staging volume may be
\* running: .git/index.lock exists for the time of such a command.
GitRunning(r) ==
  {q \in Req \ {r} : pc[q] \in {"add", "gitCommit"} /\ running[q].branch = STAGING_BRANCH}

\* handleGitFileLock(siteName, next): hasGitFileLock(repoName, true)
RaceFileLock(r) ==
  /\ pc[r] = "fileLock"
  /\ \E isGitLocked \in BOOLEAN :
       /\ isGitLocked => GitRunning(r) # {}
       /\ seen' = [seen EXCEPT ![r].fileLock = IF isGitLocked THEN "locked" ELSE "free"]
       /\ IF isGitLocked
            THEN Next1(r, "LockedError") /\ pc' = [pc EXCEPT ![r] = "done"]
            ELSE UNCHANGED nextErrs /\ pc' = [pc EXCEPT ![r] = "lock"]
  /\ UNCHANGED <<efs, running, wrapper, mutex>>
  /\ RaceFrame

\* Variant of the lock step that acquires the lock whoever holds it.
RaceLockPerBranch(r) ==
  /\ pc[r] = "lock"
  /\ running' = [running EXCEPT ![r].met = Holders, ![r].held = mutex]
  /\ LET free == \A q \in Holders : running[q].branch # running[r].branch
     IN  /\ seen' = [seen EXCEPT ![r].lock = IF free THEN "acquired" ELSE "failed"]
         /\ IF free
              THEN /\ mutex' = lock(mutex, site[r])
                   /\ pc' = [pc EXCEPT ![r] = "handler"]
                   /\ UNCHANGED nextErrs
              ELSE /\ Next1(r, "LockError")
                   /\ pc' = [pc EXCEPT ![r] = "done"]
                   /\ UNCHANGED mutex
  /\ UNCHANGED <<efs, wrapper>>
  /\ RaceFrame

\* try { await lock(siteName) } catch (err) { next(err); return }
\* met keeps the requests that held the lock when this one asked for it, and
\* held the repository names that were locked.
RaceLock(r) ==
  /\ pc[r] = "lock"
  /\ running' = [running EXCEPT ![r].met = Holders, ![r].held = mutex]
  /\ LET free == CanLock(mutex, site[r])
     IN  /\ seen' = [seen EXCEPT ![r].lock = IF free THEN "acquired" ELSE "failed"]
         /\ IF free
              THEN /\ mutex' = lock(mutex, site[r])
                   /\ pc' = [pc EXCEPT ![r] = "handler"]
                   /\ UNCHANGED nextErrs
              ELSE /\ Next1(r, "LockError")
                   /\ pc' = [pc EXCEPT ![r] = "done"]
                   /\ UNCHANGED mutex
  /\ UNCHANGED <<efs, wrapper>>
  /\ RaceFrame

\* The working tree the call of request r runs on.
Tree(r) == Repo(efs, running[r].branch)

HandlerFrame == UNCHANGED <<wrapper, mutex, seen>> /\ RaceFrame

\* create: getLatestCommitOfBranch, and oldStateSha = sha
CreateLatestCommit(r) ==
  /\ pc[r] = "handler"
  /\ running' = [running EXCEPT ![r].oldStateSha = getLatestCommitOfBranch(Tree(r), "none")]
  /\ pc' = [pc EXCEPT ![r] = "statDir"]
  /\ UNCHANGED <<efs, nextErrs>>
  /\ HandlerFrame

\* create: getFilePathStats(repoName, directoryName, ...)
CreateStatDir(r) ==
  /\ pc[r] = "statDir"
  /\ Goes(r, Tree(r),
          IF getFilePathStats(Tree(r), <<running[r].path[1]>>) = "dir"
            THEN "statFile" ELSE "mkdir")
  /\ HandlerFrame

\* create: fs.promises.mkdir(pathToEfsDir), which fails on a directory that
\* exists (EEXIST)
CreateMkdir(r) ==
  /\ pc[r] = "mkdir"
  /\ IF getFilePathStats(Tree(r), <<running[r].path[1]>>) = "dir"
       THEN Returns(r, Tree(r), Err("GitFileSystemError"))
       ELSE Goes(r, Mkdir(Tree(r), running[r].path[1]), "statFile")
  /\ HandlerFrame

\* create: getFilePathStats(repoName, filePath, ...), ConflictError on a file
CreateStatFile(r) ==
  /\ pc[r] = "statFile"
  /\ IF getFilePathStats(Tree(r), running[r].path) = "file"
       THEN Returns(r, Tree(r), Err("ConflictError"))
       ELSE Goes(r, Tree(r), "write")
  /\ HandlerFrame

\* create: fs.promises.writeFile(pathToEfsFile, encodedContent, encoding)
CreateWriteFile(r) ==
  /\ pc[r] = "write"
  /\ Goes(r, WriteFile(Tree(r), running[r].path, running[r].content), "add")
  /\ HandlerFrame

\* commit: isValidGitRepo, ensureCorrectBranch and git add <pathSpec>; an
\* error of git add is a needs-rollback error, which the closing orElse of
\* create settles.
CreateGitAdd(r) ==
  /\ pc[r] = "add"
  /\ IF GitAddMatches(Tree(r), running[r].path)
       THEN Goes(r, GitAdd(Tree(r), <<running[r].path>>), "gitCommit")
       ELSE LET out == Settle(Step(Tree(r), Err(NeedsRollback), "add"),
                              running[r].oldStateSha, "none", TRUE)
            IN  Returns(r, out.s, out.res)
  /\ HandlerFrame

\* commit: git commit -m <message>, and the result of create
CreateGitCommit(r) ==
  /\ pc[r] = "gitCommit"
  /\ LET out == Settle(commit(Tree(r), <<running[r].path>>, TRUE, "none"),
                       running[r].oldStateSha, "none", TRUE)
     IN  Returns(r, out.s, out.res)
  /\ HandlerFrame

\* routeHandler(req, res, next).catch(async (err) => { await unlock(siteName); next(err) })
RaceCatchUnlock(r) ==
  /\ pc[r] = "catchUnlock"
  /\ mutex' = unlock(mutex, site[r])
  /\ seen' = [seen EXCEPT ![r].lock = "released", ![r].unlocks = @ + 1]
  /\ Next1(r, running[r].res.val)
  /\ pc' = [pc EXCEPT ![r] = "finalUnlock"]
  /\ UNCHANGED <<efs, running, wrapper>>
  /\ RaceFrame

\* try { await unlock(siteName) } catch (err) { next(err) }
RaceFinalUnlock(r) ==
  /\ pc[r] = "finalUnlock"
  /\ mutex' = unlock(mutex, site[r])
  /\ seen' = [seen EXCEPT ![r].lock = "released", ![r].unlocks = @ + 1]
  /\ pc' = [pc EXCEPT ![r] = "done"]
  /\ UNCHANGED <<efs, running, wrapper, nextErrs>>
  /\ RaceFrame

\* Variant of the read wrapper that is refused while the advisory lock is held.
ReadHandlerGated(r) ==
  /\ pc[r] = "read"
  /\ IF CanLock(mutex, site[r])
       THEN /\ running' = [running EXCEPT ![r].res = read(Tree(r), running[r].path),
                                          ![r].met = Holders]
            /\ nextErrs' = [nextErrs EXCEPT ![r] =
                              IF read(Tree(r), running[r].path).ok THEN @
                              ELSE Append(@, read(Tree(r), running[r].path).val)]
       ELSE /\ running' = [running EXCEPT ![r].met = Holders]
            /\ Next1(r, "LockError")
  /\ pc' = [pc EXCEPT ![r] = "done"]
  /\ UNCHANGED <<efs, wrapper, mutex, seen>>
  /\ RaceFrame

\* attachReadRouteHandlerWrapper: routeHandler(req, res).catch((err) => next(err)),
\* with a handler that calls read. met keeps the requests that held the
\* advisory lock while the read ran.
ReadHandler(r) ==
  /\ pc[r] = "read"
  /\ running' = [running EXCEPT ![r].res = read(Tree(r), running[r].path),
                                ![r].met = Holders]
  /\ nextErrs' = [nextErrs EXCEPT ![r] =
                    IF read(Tree(r), running[r].path).ok THEN @
                    ELSE Append(@, read(Tree(r), running[r].path).val)]
  /\ pc' = [pc EXCEPT ![r] = "done"]
  /\ UNCHANGED <<efs, wrapper, mutex, seen>>
  /\ RaceFrame

NextRace ==
  \E r \in Req :
    \/ RaceStart(r)
    \/ RaceFileLock(r)
    \/ RaceLock(r)
    \/ CreateLatestCommit(r)
    \/ CreateStatDir(r)
    \/ CreateMkdir(r)
    \/ CreateStatFile(r)
    \/ CreateWriteFile(r)
    \/ CreateGitAdd(r)
    \/ CreateGitCommit(r)
    \/ RaceCatchUnlock(r)
    \/ RaceFinalUnlock(r)
    \/ ReadHandler(r)

InitRace == GateIdle /\ FsFresh /\ VolCloned

SpecRace == InitRace /\ [][NextRace]_vars

(***************************************************************************)
(* C1: for every repository name, at most one gated request is executing   *)
(* its route handler (holding the advisory lock) at any time.              *)
(***************************************************************************)
InHandler(repoName) == {r \in Req : pc[r] = "handler" /\ site[r] = repoName}

C1_AtMostOneHandlerPerRepo ==
  \A repoName \in Repos : Cardinality(InHandler(repoName)) <= 1

(***************************************************************************)
(* Shorthands for the claims about the last call: the working tree of the  *)
(* branch it was made on, before (Pre) and after (Post) the call.          *)
(***************************************************************************)
MutatingOps == {"create", "update", "delete", "deleteDir", "renameSinglePath", "moveFiles"}
Called(op) == last.op = op
Pre == last.pre
Post == Repo(efs, last.branch)
PreTree == HeadTree(Pre)
Unchanged == Post = Pre
IsErr(e) == ~last.res.ok /\ last.res.val = e

(***************************************************************************)
(* C2: once the disk mutation of create, update, delete, renameSinglePath  *)
(* or moveFiles has been executed, a call that fails returns only after    *)
(* rollback(oldStateSha) was invoked (a call that succeeds has committed). *)
(***************************************************************************)
C2_FailureAfterMutationRollsBack ==
  (last.op \in MutatingOps /\ last.mutated /\ ~last.res.ok) => last.rolledBack

(***************************************************************************)
(* C3 as stated: when create has written the file and git add or git       *)
(* commit fails, on return HEAD is the captured commit, the created file   *)
(* and a directory created for it are absent from disk, and the caller     *)
(* receives a GitFileSystemError.                                          *)
(***************************************************************************)
CreateFailedAtCommit ==
  Called("create") /\ last.mutated /\ last.stage \in {"add", "commit"}

C3_CreateFailureRestoresState ==
  CreateFailedAtCommit =>
    /\ Post.head = Pre.head
    /\ Post.wt.files[last.path] = Absent
    /\ last.path[1] \notin Pre.wt.dirs => last.path[1] \notin Post.wt.dirs
    /\ IsErr("GitFileSystemError")

(***************************************************************************)
(* C3 amended: in that case rollback(oldStateSha) is invoked and the       *)
(* caller receives a GitFileSystemError; when the rollback succeeds, HEAD  *)
(* is the captured commit and the index and the disk hold exactly that     *)
(* commit's tree, so what create wrote and the directory it made are gone. *)
(***************************************************************************)
C3_CreateFailureRollsBack ==
  CreateFailedAtCommit =>
    /\ last.rolledBack
    /\ IsErr("GitFileSystemError")
    /\ last.rbOk =>
         /\ Post.head = Pre.head
         /\ Post.commits = Pre.commits
         /\ Post.index = PreTree
         /\ Post.wt = [dirs |-> TreeDirs(PreTree), files |-> PreTree]

C3_Witness ==
  /\ CreateFailedAtCommit
  /\ last.rbOk
  /\ last.path[1] \notin Pre.wt.dirs
  /\ last.path[1] \notin Post.wt.dirs
  /\ Post.wt.files[last.path] = Absent

(***************************************************************************)
(* C4: when create, update, delete or renameSinglePath fails a             *)
(* precondition check (wrong type, stale oldSha, destination exists,       *)
(* source absent) it returns an error, nothing on disk, in the index or in *)
(* the history has changed, and rollback was not invoked.                  *)
(***************************************************************************)
StaleSha(s, path, oldSha) ==
  getGitBlobHash(s, path).ok /\ getGitBlobHash(s, path).val # oldSha

PreconditionFails ==
  \/ Called("create") /\ getFilePathStats(Pre, last.path) = "file"
  \/ Called("update") /\ getFilePathStats(Pre, last.path) # "file"
  \/ Called("update") /\ Len(last.path) = 2 /\ StaleSha(Pre, last.path, last.oldSha)
  \/ Called("delete") /\ getFilePathStats(Pre, last.path) # "file"
  \/ Called("delete") /\ Len(last.path) = 2 /\ StaleSha(Pre, last.path, last.oldSha)
  \/ Called("deleteDir") /\ getFilePathStats(Pre, last.path) # "dir"
  \/ Called("renameSinglePath") /\ getFilePathStats(Pre, last.path) = "none"
  \/ Called("renameSinglePath") /\ getFilePathStats(Pre, last.dest) # "none"

C4_PreconditionFailureHasNoEffect ==
  PreconditionFails => ~last.res.ok /\ Unchanged /\ ~last.rolledBack

C4_Witness ==
  /\ Called("renameSinglePath")
  /\ getFilePathStats(Pre, last.path) # "none"
  /\ getFilePathStats(Pre, last.dest) # "none"
  /\ IsErr("ConflictError")

(***************************************************************************)
(* C5: when moveFiles returns Conflict because a destination exists, no    *)
(* target file has been moved and no directory has been left behind: the   *)
(* working tree is as it was before the call.                              *)
(***************************************************************************)
C5_MoveConflictMovesNothing ==
  (Called("moveFiles") /\ IsErr("ConflictError")) => Post.wt = Pre.wt

(***************************************************************************)
(* C6: update of a file whose current blob SHA (the blob at HEAD of the    *)
(* branch that is updated) differs from oldSha fails with ConflictError;   *)
(* the file on disk and HEAD are unchanged.                                *)
(***************************************************************************)
UpdateWithStaleSha ==
  /\ Called("update")
  /\ getFilePathStats(Pre, last.path) = "file"
  /\ PreTree[last.path] # Absent
  /\ BlobSha(PreTree[last.path]) # last.oldSha

C6_StaleUpdateIsConflict ==
  UpdateWithStaleSha =>
    /\ IsErr("ConflictError")
    /\ Post.wt = Pre.wt
    /\ Post.head = Pre.head

(***************************************************************************)
(* C7: an update with oldSha = S that succeeds returns a SHA different     *)
(* from S, and once it has succeeded with a new commit, every later update *)
(* of the same path that passes oldSha = S again fails with Conflict.      *)
(***************************************************************************)
C7_StaleShaNeverAcceptedAgain ==
  Called("update") =>
    /\ last.res.ok => last.res.val # last.oldSha
    /\ last.stale => IsErr("ConflictError")

(***************************************************************************)
(* C8: the SHA returned by create and by update is the file's version      *)
(* token: a read of the path right after returns this sha, and an update   *)
(* that passes it as oldSha is not rejected with Conflict.                 *)
(***************************************************************************)
ReturnedSha == last.op \in {"create", "update"} /\ last.res.ok /\ last.res.val # ""

C8_ReturnedShaIsVersionToken ==
  ReturnedSha =>
    /\ read(Repo(efs, STAGING_BRANCH), last.path).ok
    /\ read(Repo(efs, STAGING_BRANCH), last.path).sha = last.res.val
    /\ \A c \in Contents :
         update(Post, last.path, c, last.res.val, "none", "none").res
           # Err("ConflictError")

(***************************************************************************)
(* C9: renameSinglePath is atomic for the caller: once git mv has run, on  *)
(* return either the new path exists, the old one is absent and exactly    *)
(* one commit was added, or (the call failed) disk, index and HEAD are as  *)
(* before the call. A call whose rollback failed is set aside here.        *)
(***************************************************************************)
RenameCommitted ==
  /\ last.res.ok
  /\ getFilePathStats(Post, last.dest) # "none"
  /\ getFilePathStats(Post, last.path) = "none"
  /\ Post.commits = Append(Pre.commits, [tree |-> Post.index, parent |-> Pre.head,
                                          message |-> commitMessage(<<last.path, last.dest>>)])
  /\ Post.head = Len(Post.commits)

C9_RenameIsAtomic ==
  (Called("renameSinglePath") /\ last.mutated /\ (last.rolledBack => last.rbOk)) =>
    \/ RenameCommitted
    \/ ~last.res.ok /\ Post.wt = Pre.wt /\ Post.index = Pre.index /\ Post.head = Pre.head

(***************************************************************************)
(* C10 as stated: create fails with ConflictError whenever the target path *)
(* already exists in the working tree, as a file or as a directory,        *)
(* leaving disk, index and HEAD unchanged; a file that create has written  *)
(* lies in a directory that exists, so an absent parent directory has been *)
(* made before the write.                                                  *)
(***************************************************************************)
ParentMadeBeforeWrite ==
  Len(last.path) = 2 =>
    /\ Post.wt.files[last.path] # Absent => last.path[1] \in Post.wt.dirs
    /\ (last.res.ok /\ getFilePathStats(Pre, last.path) = "none") =>
         /\ Post.wt.files[last.path] \in Contents
         /\ HeadTree(Post)[last.path] = Post.wt.files[last.path]

DeleteWithStaleSha ==
  /\ Called("delete")
  /\ getFilePathStats(Pre, last.path) = "file"
  /\ PreTree[last.path] # Absent
  /\ BlobSha(PreTree[last.path]) # last.oldSha

DeleteTypeMismatch ==
  \/ Called("delete") /\ getFilePathStats(Pre, last.path) = "dir"
  \/ Called("deleteDir") /\ getFilePathStats(Pre, last.path) = "file"

C11_DeleteChecksShaAndType ==
  /\ DeleteWithStaleSha => IsErr("ConflictError") /\ Post.wt = Pre.wt
  /\ Called("deleteDir") => ~IsErr("ConflictError")
  /\ (Called("deleteDir") /\ last.res.ok /\ getFilePathStats(Pre, last.path) = "dir") =>
       /\ getFilePathStats(Post, last.path) = "none"
       /\ \A q \in Under(last.path) : Post.wt.files[q] = Absent
  /\ DeleteTypeMismatch => ~last.res.ok /\ Post.wt = Pre.wt

(***************************************************************************)
(* C12: after a delete of a file has succeeded (on the staging branch, the *)
(* working tree read serves), the file is absent from the working tree and *)
(* from HEAD, and read of the path returns NotFoundError for as long as no *)
(* successful call has created a file at the path again.                   *)
(***************************************************************************)
C12_DeletedFileStaysNotFound ==
  /\ (Called("delete") /\ last.branch = STAGING_BRANCH /\ last.res.ok) =>
       /\ Post.wt.files[last.path] = Absent
       /\ HeadTree(Post)[last.path] = Absent
  /\ \A p \in gone : read(Repo(efs, STAGING_BRANCH), p) = Err("NotFoundError")

(***************************************************************************)
(* C13: every item returned by listDirectoryContents has a non-empty SHA   *)
(* and is part of the committed tree of the branch that is listed: an      *)
(* entry that is on disk but not in the tree at HEAD never appears.        *)
(***************************************************************************)
InCommittedTree(b, path) ==
  IF Len(path) = 1 THEN path[1] \in TreeDirs(HeadTree(efs[b]))
  ELSE HeadTree(efs[b])[path] # Absent

C13_ListingHoldsOnlyCommittedEntries ==
  \A b \in Branches, d \in DirPaths \cup {<<>>} :
    listDirectoryContents(Repo(efs, b), d).ok =>
      \A item \in listDirectoryContents(Repo(efs, b), d).val :
        item.sha # "" /\ InCommittedTree(b, item.path)

(***************************************************************************)
(* C14 as stated: the route handler of every mutating request is invoked   *)
(* only after the request has found no .git/index.lock and has acquired    *)
(* the advisory lock; a request that fails either check never reaches its  *)
(* handler and ends at once with one error passed to next, a LockedError   *)
(* when the lock file is present.                                          *)
(***************************************************************************)
RejectedAtGate(r) ==
  (seen[r].fileLock \in {"locked", "err"} \/ seen[r].lock = "failed") =>
    /\ pc[r] = "done"
    /\ Len(nextErrs[r]) = 1
    /\ seen[r].fileLock = "locked" => nextErrs[r] = <<"LockedError">>
    /\ seen[r].fileLock \in {"locked", "err"} => seen[r].lock = "untried"

C14_HandlerOnlyAfterBothChecks ==
  \A r \in Req :
    /\ pc[r] = "handler" => seen[r].fileLock = "free" /\ seen[r].lock = "acquired"
    /\ RejectedAtGate(r)

(***************************************************************************)
(* C14 amended: the same, where the lock file is looked for by every       *)
(* request under the rollback wrapper and, under the write wrapper, by the *)
(* requests for sites that are served from the Git file system; a write    *)
(* request for another site reaches its handler on the advisory lock alone.*)
(***************************************************************************)
ChecksFileLock(r) == wrapper[r] = "rollback" \/ IsGgsEnabled(site[r])

C14_HandlerOnlyAfterChecksOfItsSite ==
  \A r \in Req :
    /\ pc[r] = "handler" =>
         /\ seen[r].lock = "acquired"
         /\ seen[r].fileLock = IF ChecksFileLock(r) THEN "free" ELSE "unchecked"
    /\ RejectedAtGate(r)

C14_Witness ==
  \E r, q \in Req :
    /\ pc[r] = "handler" /\ ChecksFileLock(r) /\ seen[r].fileLock = "free"
    /\ pc[q] = "done" /\ seen[q].fileLock = "locked" /\ nextErrs[q] = <<"LockedError">>

\* A request under the rollback wrapper, for a site with the Git file system
\* enabled, whose handler was invoked and has had an error passed to next.
FailedUnderRollback(r) ==
  /\ wrapper[r] = "rollback" /\ IsGgsEnabled(site[r])
  /\ capt[r] = "ok" /\ nextErrs[r] # <<>>

\* C15 (as stated): when the handler fails under the rollback wrapper on a site
\* with the Git file system enabled, the wrapper has reset staging and
\* staging-lite and force-pushed before it releases the lock, and the error it
\* passes to next is the handler's own.
C15_RecoversThenPassesHandlerError ==
  \A r \in Req :
    /\ (wrapper[r] = "rollback" /\ IsGgsEnabled(site[r]) /\ pc[r] = "catchUnlock") =>
         /\ recovered[r].done = RecoverySteps(site[r])
         /\ nextErrs[r] = <<>>
    /\ FailedUnderRollback(r) =>
         /\ recovered[r].done = RecoverySteps(site[r])
         /\ nextErrs[r] = <<"HandlerError">>

\* C15 (amended): the recovery always runs before the lock is released; when its
\* three steps all succeed the handler's error is passed to next, and when a
\* step fails all its attempts the later steps are skipped and the retry error
\* is passed instead.
C15_RecoveryRunsBeforeUnlock ==
  \A r \in Req :
    /\ (wrapper[r] = "rollback" /\ IsGgsEnabled(site[r]) /\ pc[r] = "catchUnlock") =>
         /\ recovered[r].ran
         /\ nextErrs[r] = <<>>
    /\ FailedUnderRollback(r) =>
         /\ recovered[r].ran
         /\ \E n \in 0..Len(RecoverySteps(site[r])) :
              recovered[r].done = SubSeq(RecoverySteps(site[r]), 1, n)
         /\ nextErrs[r] =
              <<IF recovered[r].done = RecoverySteps(site[r])
                  THEN "HandlerError" ELSE "RetryError">>

C15_Witness ==
  \E r, q \in Req :
    /\ FailedUnderRollback(r) /\ pc[r] = "done"
    /\ recovered[r].done = RecoverySteps(site[r])
    /\ FailedUnderRollback(q) /\ pc[q] = "done"
    /\ recovered[q].done = <<"rollback staging">>

\* The three conditions of a valid repository, for one working tree.
ValidVol(v) == v.root = "dir" /\ v.isRepo /\ v.origin = "canonical"

\* C18: isValidGitRepo(repo, branch) returns true exactly when the working
\* tree of that branch is a directory, an initialized repository, and has the
\* canonical origin; when it returns a value at all, the value is that.
C18_ValidIffBranchTreeValid ==
  (sync.op = "isValidGitRepo" /\ sync.res.ok) =>
    (sync.res.val <=> ValidVol(sync.vol[sync.branch]))

\* A call of push for which isValidGitRepo has returned true.
PushOfValidRepo == sync.op = "push" /\ sync.valid.ok /\ sync.valid.val

HasForce(cmd) == \E i \in 1..Len(cmd.args) : cmd.args[i] = "--force"

\* C16: push runs at most two git push commands; when the first fails it runs
\* exactly one more, with the same force flag; it returns an error only when
\* two pushes were run and both failed, and success when a push succeeded.
C16_PushRetriesExactlyOnce ==
  PushOfValidRepo =>
    /\ Len(sync.cmds) <= 2
    /\ \A i \in 1..Len(sync.cmds) : HasForce(sync.cmds[i]) = sync.isForce
    /\ (Len(sync.cmds) >= 1 /\ ~sync.cmds[1].ok) => Len(sync.cmds) = 2
    /\ ~sync.res.ok =>
         /\ Len(sync.cmds) = 2
         /\ ~sync.cmds[1].ok /\ ~sync.cmds[2].ok
    /\ (\E i \in 1..Len(sync.cmds) : sync.cmds[i].ok) => sync.res.ok

\* C17: pull returns success when git pull fails with one of the four known
\* errors and a GitFileSystemError for every other failure of git pull, and
\* runs no git pull when the working tree of the branch is not a valid
\* repository or the branch check fails.
C17_PullIgnoresKnownErrors ==
  sync.op = "pull" =>
    /\ (~ValidVol(sync.vol[sync.branch]) \/ ~sync.branchOk) => sync.cmds = <<>>
    /\ \A i \in 1..Len(sync.cmds) :
         LET known == sync.cmds[i].isGitError
                        /\ sync.cmds[i].message \in BenignPullMessages
         IN  /\ (sync.cmds[i].ok \/ known) => sync.res.ok
             /\ (~sync.cmds[i].ok /\ ~known) => sync.res = Err("GitFileSystemError")

\* C19: whenever create, update, delete, renameSinglePath or moveFiles has
\* changed the disk or run git mv, the working tree had the branch of the call
\* checked out when the call began, and it has it checked out once git add and
\* git commit have been reached.
C19_MutationsOnBranchOfCall ==
  (last.op \in MutatingOps) =>
    /\ last.mutated => last.checkedOut = last.branch
    /\ last.stage \in PastBranchCheck => checkedOut[last.branch] = last.branch

\* The call of clone has run git clone for the volume of branch b.
ClonedInto(b) == \E i \in 1..Len(sync.cmds) : sync.cmds[i].args = <<"clone", b>>

\* C20: clone runs git clone for a branch only when its root is absent; a root
\* that is a directory is accepted only when it is itself a Git repository
\* with the expected origin, and otherwise the call fails for that branch
\* with a GitFileSystemError and the root is left as it was.
C20_CloneValidatesExistingRoot ==
  sync.op = "clone" =>
    \A b \in Branches :
      /\ ClonedInto(b) => sync.vol[b].root = "absent"
      /\ sync.vol[b].root = "dir" =>
           /\ sync.each[b].ok => ValidVol(sync.vol[b])
           /\ ~ValidVol(sync.vol[b]) =>
                /\ sync.each[b] = Err("GitFileSystemError")
                /\ vol[b] = sync.vol[b]

\* A call of updateRepoState that went past isValidGitRepo and the branch check.
UpdateRepoStateRan ==
  sync.op = "updateRepoState" /\ sync.valid.ok /\ sync.valid.val /\ sync.branchOk

\* The positions in the commands of the call of those that begin with word.
Ran(word) == {i \in 1..Len(sync.cmds) : sync.cmds[i].args[1] = word}

\* The sha of the call names a commit of the history the branch had when the
\* call began.
ShaInHistory ==
  CommitIndex(efs[sync.branch].commits, sync.sha) \in
    History(efs[sync.branch].commits, sync.head)

\* C21: updateRepoState with a sha outside the history of the branch fails
\* with BadRequestError and runs neither git reset nor git push; with a sha
\* of the history it resets, then force-pushes, and pushes nothing when the
\* reset fails.
C21_UpdateRepoStateChecksSha ==
  UpdateRepoStateRan =>
    /\ ~ShaInHistory =>
         /\ sync.res = Err("BadRequestError")
         /\ Ran("reset") = {} /\ Ran("push") = {}
    /\ ShaInHistory =>
         /\ Ran("reset") # {}
         /\ \A i \in Ran("reset"), j \in Ran("push") : i < j /\ sync.cmds[i].ok
         /\ \A j \in Ran("push") : HasForce(sync.cmds[j])
         /\ (\A i \in Ran("reset") : sync.cmds[i].ok) =>
              /\ Ran("push") # {}
              /\ CommitSha(efs[sync.branch].head) = sync.sha

\* C22: commit with a pathSpec of fewer than 1 or more than 2 entries returns
\* a GitFileSystemError and leaves the index and the commits as they were; a
\* call of commit that has made a commit had a pathSpec of 1 or 2 entries.
C22_CommitRejectsOtherPathSpecLengths ==
  Called("commit") =>
    /\ Len(last.dest) \notin {1, 2} =>
         /\ IsErr("GitFileSystemError")
         /\ last.stage \notin PastBranchCheck
         /\ Post.index = Pre.index /\ Post.commits = Pre.commits /\ Post.head = Pre.head
    /\ Post.commits # Pre.commits => Len(last.dest) \in {1, 2}

\* commit is called with three paths, one of them changed on disk.
C22_Witness ==
  /\ Called("commit") /\ Len(last.dest) = 3 /\ last.stage = "pathSpec"
  /\ \E i \in 1..3 : Len(last.dest[i]) = 2 /\ Pre.wt.files[last.dest[i]] # Pre.index[last.dest[i]]

\* The last call failed at a step whose failure is always raised as a
\* needs-rollback error: the write to disk, git add or git commit.
NeedsRollbackRaised ==
  last.op \in MutatingOps /\ ~last.res.ok /\ last.stage \in {"fs", "add", "commit"}

NewPath == <<"d2", "a">>

Finished(r) == pc[r] = "done"

\* The handler of the request was invoked.
HandlerRan(r) == seen[r].lock = "released" \/ wrapper[r] = "read"

\* The request ended with no error passed to next.
Succeeded(r) == Finished(r) /\ HandlerRan(r) /\ nextErrs[r] = <<>>

\* Some commit of the branch of the request holds its content at its path.
Committed(r) ==
  \E i \in 1..Len(efs[running[r].branch].commits) :
    efs[running[r].branch].commits[i].tree[running[r].path] = running[r].content

\* Two finished create requests for the same new path on the same branch,
\* with different contents, and no other create for that path and branch.
RivalCreates(a, b) ==
  /\ a # b
  /\ running[a].op = "create" /\ running[b].op = "create"
  /\ running[a].path = NewPath /\ running[b].path = NewPath
  /\ running[a].branch = running[b].branch
  /\ running[a].content # running[b].content
  /\ Finished(a) /\ Finished(b)
  /\ \A q \in Req \ {a, b} :
       ~(running[q].op = "create" /\ running[q].path = NewPath
         /\ running[q].branch = running[a].branch)

(***************************************************************************)
(* C24: of two concurrent create requests for the same new path on the     *)
(* same branch exactly one succeeds and commits the file (one of them does *)
(* when a handler was invoked at all); the other fails and its content is  *)
(* in no commit.                                                           *)
(***************************************************************************)
C24_ExactlyOneCreateSucceeds ==
  \A a, b \in Req :
    RivalCreates(a, b) =>
      /\ ~(Succeeded(a) /\ Succeeded(b))
      /\ (HandlerRan(a) \/ HandlerRan(b)) => (Succeeded(a) \/ Succeeded(b))
      /\ \A x \in {a, b} : Succeeded(x) <=> Committed(x)

\* The request asked for the advisory lock and was refused.
Refused(r) == seen[r].lock = "failed"

IsRead(r) == wrapper[r] = "read"

\* The errors of the gate: of handleGitFileLock and of lock.
LockedErrors == {"LockedError", "LockError"}

(***************************************************************************)
(* C28: read requests are not gated: a request under the read wrapper      *)
(* never looks for the lock file and never asks for the advisory lock, is  *)
(* never rejected with an error of the gate, and no step of it changes the *)
(* advisory lock, whoever holds it.                                        *)
(***************************************************************************)
ReadNeverGated ==
  \A r \in Req :
    IsRead(r) =>
      /\ seen[r] = [fileLock |-> "unchecked", lock |-> "untried", unlocks |-> 0]
      /\ \A i \in 1..Len(nextErrs[r]) : nextErrs[r][i] \notin LockedErrors
      /\ Finished(r) => HandlerRan(r) /\ running[r].res.val \notin LockedErrors

ReadStepKeepsLock ==
  \A r \in Req : (pc[r] = "read" /\ pc'[r] # "read") => mutex' = mutex

C28_ReadsAreNotGated == []ReadNeverGated /\ [][ReadStepKeepsLock]_vars

\* A read has returned a file while a create on the same repository holds
\* the advisory lock, which is still held.
C28_Witness ==
  \E r, q \in Req :
    /\ IsRead(r) /\ Finished(r) /\ running[r].res.ok /\ nextErrs[r] = <<>>
    /\ q \in running[r].met /\ seen[q].lock = "acquired" /\ site[q] \in mutex

\* The last call was isValidGitRepo, repeating a call of isValidGitRepo.
Repeated == sync.op = "isValidGitRepo" /\ sync.before.op = "isValidGitRepo"

Listed(whitelist, siteName) ==
  /\ \E i \in 1..(Len(whitelist) + 1) :
       /\ i = 1 \/ whitelist[i - 1] = ","
       /\ i + Len(siteName) - 1 <= Len(whitelist)
       /\ SubSeq(whitelist, i, i + Len(siteName) - 1) = siteName
       /\ i + Len(siteName) = Len(whitelist) + 1 \/ whitelist[i + Len(siteName)] = ","

(***************************************************************************)
(* C27: for read, readDirectory, update and getLatestCommitOfBranch,       *)
(* RepoService calls the local Git file system if and only if the site     *)
(* name is whitelisted and GitHubService otherwise, never both, and        *)
(* returns the value or throws the error of the backend it called; for     *)
(* update on a whitelisted site the value is the SHA wrapped as newSha.    *)
(***************************************************************************)
C27_RepoServiceCallsOneBackend ==
  served.op \in RepoOps =>
    IF Listed(served.whitelist, served.siteName)
      THEN /\ served.backends = <<"GitFileSystemService">>
           /\ served.threw = ~served.local.ok
           /\ served.value = IF served.local.ok /\ served.op = "update"
                               THEN [newSha |-> served.local.val]
                               ELSE served.local.val
      ELSE /\ served.backends = <<"GitHubService">>
           /\ served.threw = ~served.github.ok
           /\ served.value = served.github.val

\* An update of a whitelisted site has returned the SHA of its commit as
\* newSha, with a whitelist that names two sites.
C27_Witness ==
  /\ served.op = "update" /\ Len(Split(served.whitelist)) = 2
  /\ served.backends = <<"GitFileSystemService">> /\ ~served.threw
  /\ served.value = [newSha |-> CommitSha(efs[STAGING_BRANCH].head)]
  /\ efs[STAGING_BRANCH].head = 2

\* The last call was a mutating operation that invoked rollback.
RolledBack == last.op \in MutatingOps /\ last.rolledBack

(***************************************************************************)
(* C29: the SHA a mutating operation passes to rollback is the latest      *)
(* commit it read before any mutation, which is the commit the branch      *)
(* pointed to (its local HEAD) when the call started; a rollback that      *)
(* succeeds leaves the branch at that commit.                              *)
(***************************************************************************)
C29_RollbackTargetIsHeadAtStart ==
  RolledBack =>
    /\ last.target = CommitSha(last.pre.head)
    /\ last.rbOk => Post.head = last.pre.head

\* The payload a commit of the last call is to carry: the userId and the
\* message, and the last segment of the path for an operation on one path.
OnePathOps == {"create", "update", "delete", "deleteDir"}
Payload ==
  <<<<"message", Message>>, <<"userId", UserId>>>> \o
    (IF last.op \in OnePathOps
       THEN <<<<"fileName", last.path[Len(last.path)]>>>>
       ELSE <<>>)

\* The branch has one commit more than before the call, and points to it.
AdvancedByOne ==
  /\ Post.commits = Append(Pre.commits, Post.commits[Len(Post.commits)])
  /\ Post.head = Len(Post.commits)

(***************************************************************************)
(* C30: every successful create, update, delete, renameSinglePath or       *)
(* moveFiles advances the HEAD of the branch by exactly one commit, whose  *)
(* parent is the commit captured at the start of the call and whose        *)
(* message is the payload of userId, message and (for one pathSpec entry)  *)
(* fileName; a call that returns an error leaves HEAD where it was.        *)
(***************************************************************************)
C30_SuccessIsOneCommitAndErrorKeepsHead ==
  last.op \in MutatingOps =>
    /\ last.res.ok =>
         /\ AdvancedByOne
         /\ CommitSha(Post.commits[Post.head].parent) = last.target
         /\ Post.commits[Post.head].message = Payload
    /\ ~last.res.ok => Post.head = Pre.head

\* The branch that is not branchName, and the working trees with that
\* branch's tree as it was cloned, no operation having run on it.
TheOther(branchName) ==
  IF branchName = STAGING_BRANCH THEN STAGING_LITE_BRANCH ELSE STAGING_BRANCH
Alone(branchName) ==
  [efs EXCEPT ![TheOther(branchName)] = CleanRepo(<<SeedCommit>>)]

\* What a call leaves behind: its result and the working tree of its branch.
Left(out) == [res |-> out.res, s |-> Stored(out.s)]

\* Every call of a mutating operation on the branch ends as it does with the
\* other working tree as cloned.
SameAsAlone(b) ==
  LET s == Repo(efs, b)
      a == Repo(Alone(b), b)
  IN  \A fail \in Failures, rb \in RollbackFailures :
        /\ \A d \in Dirs, n \in Names, c \in Contents :
             Left(create(s, d, n, c, fail, rb)) = Left(create(a, d, n, c, fail, rb))
        /\ \A p \in Paths, c \in Contents, oldSha \in OldShas :
             Left(update(s, p, c, oldSha, fail, rb)) = Left(update(a, p, c, oldSha, fail, rb))
        /\ \A p \in Paths, oldSha \in OldShas, isDir \in BOOLEAN :
             Left(delete(s, p, oldSha, isDir, fail, rb)) = Left(delete(a, p, oldSha, isDir, fail, rb))
        /\ \A p \in Paths, q \in Paths :
             Len(p) = Len(q) =>
               Left(renameSinglePath(s, p, q, fail, rb)) = Left(renameSinglePath(a, p, q, fail, rb))
        /\ \A p \in DirPaths, q \in DirPaths, targetFiles \in TargetLists :
             Left(moveFiles(s, p, q, targetFiles, fail, rb)) =
               Left(moveFiles(a, p, q, targetFiles, fail, rb))

\* A call on one branch leaves the working tree of the other branch, and the
\* branch checked out there, as they were.
OtherTreeKept ==
  calls' # calls =>
    /\ efs'[TheOther(last'.branch)] = efs[TheOther(last'.branch)]
    /\ checkedOut'[TheOther(last'.branch)] = checkedOut[TheOther(last'.branch)]

(***************************************************************************)
(* C31: a mutating operation (with the rollback it runs) called with one   *)
(* branch name leaves the working tree of the other branch unchanged, its  *)
(* files, checked-out branch and HEAD; and what it does to its own working *)
(* tree does not depend on what has been done to the other one, so calls   *)
(* on the two branches interleave with the same final trees as run alone.  *)
(***************************************************************************)
C31_BranchesDoNotInterfere ==
  /\ [][OtherTreeKept]_vars
  /\ [](\A b \in Branches : SameAsAlone(b))

\* The last call was an update or a delete of a file that reached the
\* comparison of oldSha: the path is a file on the disk of its branch.
ComparedSha ==
  /\ last.op \in {"update", "delete"}
  /\ getFilePathStats(Pre, last.path) = "file"

\* git rev-parse HEAD:<path> in the working tree of the branch of the call.
OwnBlobSha == BlobSha(PreTree[last.path])

(***************************************************************************)
(* C32: update and delete compare oldSha with the blob SHA the file has at *)
(* HEAD of the working tree of the branch being mutated: the call ends     *)
(* with ConflictError exactly when oldSha differs from that SHA, whatever  *)
(* the other branch's working tree holds.                                  *)
(***************************************************************************)
C32_ShaComparedOnOwnBranch ==
  (ComparedSha /\ PreTree[last.path] # Absent) =>
    (last.res = Err("ConflictError") <=> last.oldSha # OwnBlobSha)

\* The number of successful lock(siteName) calls of a request: one or none.
Locks(r) == IF seen[r].lock \in {"acquired", "released"} THEN 1 ELSE 0

(***************************************************************************)
(* C33: a request calls unlock(siteName) exactly once for each successful  *)
(* lock(siteName): never without having locked, never a second time after  *)
(* it has released its lock, and once by the time it is done, whether the  *)
(* handler succeeded, the handler failed or the recovery failed.           *)
(***************************************************************************)
C33_UnlockOncePerLock ==
  \A r \in Req :
    /\ seen[r].unlocks <= Locks(r)
    /\ pc[r] = "done" => seen[r].unlocks = Locks(r)

(***************************************************************************)
(* SpecGateFair: the wrappers when every awaited step of a request that    *)
(* has arrived ends (the handler and each Git operation terminate), so the *)
(* request goes on to its next step.                                       *)
(***************************************************************************)
Proceed(r) ==
  \/ HandleGitFileLock(r)
  \/ Lock(r)
  \/ Capture(r)
  \/ CaptureUnlock(r)
  \/ Handler(r)
  \/ Recover(r)
  \/ CatchUnlock(r)
  \/ FinalUnlock(r)

\* The requests that arrive in SpecGateFair.
NumArriving == 2
Arriving == 1..NumArriving

NextGateFair == \E r \in Arriving : Start(r) \/ Proceed(r)

SpecGateFair ==
  InitGate /\ [][NextGateFair]_vars /\ \A r \in Arriving : WF_vars(Proceed(r))

\* The request has acquired the advisory lock and has not called unlock yet.
HoldsLock(r) == seen[r].lock = "acquired" /\ seen[r].unlocks = 0

(***************************************************************************)
(* C34: every request that acquires the advisory lock eventually releases  *)
(* it (calls unlock), whether the handler succeeds, the handler fails, the *)
(* original commits cannot be read or the recovery exhausts its retries.   *)
(***************************************************************************)
C34_LockEventuallyReleased ==
  \A r \in Arriving : HoldsLock(r) ~> (seen[r].unlocks > 0)

\* A request whose recovery exhausted its retries, and one whose commits
\* could not be read, have released the lock.
C34_Witness ==
  \E r \in Arriving, q \in Arriving :
    /\ wrapper[r] = "rollback" /\ RecoveryFailed(r) /\ seen[r].unlocks > 0
    /\ capt[q] \notin {"none", "ok"} /\ seen[q].lock = "acquired" /\ seen[q].unlocks > 0

\* The request did not complete its route handler: a gate check failed, the
\* commits could not be captured, or the handler rejected (the catch ran).
NotCompleted(r) ==
  \/ seen[r].fileLock \in {"err", "locked"}
  \/ seen[r].lock = "failed"
  \/ capt[r] \notin {"none", "ok"}
  \/ recovered[r].ran

(***************************************************************************)
(* C35: a request under attachRollbackRouteHandlerWrapper that does not    *)
(* complete its route handler successfully has passed exactly one error to *)
(* next by the time the wrapper is done with it, also when reading the     *)
(* staging or the staging-lite commit fails or yields an empty SHA.        *)
(***************************************************************************)
C35_ExactlyOneErrorToNext ==
  \A r \in Req :
    (wrapper[r] = "rollback" /\ pc[r] = "done" /\ NotCompleted(r)) =>
      Len(nextErrs[r]) = 1

(***************************************************************************)
(* SpecRecover: the wrappers with the catch of the rollback wrapper taken  *)
(* one attempt at a time. Each recovery step is run by backOff with        *)
(* backoffOptions: it is attempted again after a failure until it succeeds *)
(* or has been attempted numOfAttempts times, and then backOff throws.     *)
(***************************************************************************)
numOfAttempts == 5

\* The attempts made so far by the catch of a request, in the order they
\* were made, and the steps that have succeeded.
AttemptLog(r) == IF recovered[r].ran THEN recovered[r].log ELSE <<>>
StepsDone(r) == IF recovered[r].ran THEN recovered[r].done ELSE <<>>
Attempts(log, step) == Cardinality({i \in 1..Len(log) : log[i].step = step})

\* Variant of an attempt that goes on to the next step when a step has
\* failed all its attempts.
RecoverAttemptGoingOn(r) ==
  /\ UNCHANGED fsVars
  /\ pc[r] = "recover"
  /\ LET steps == RecoverySteps(site[r])
         closed == {i \in 1..Len(steps) :
                      \/ steps[i] \in {StepsDone(r)[j] : j \in 1..Len(StepsDone(r))}
                      \/ Attempts(AttemptLog(r), steps[i]) = numOfAttempts}
         at == Cardinality(closed) + 1
     IN  \E ok \in BOOLEAN :
           LET log == Append(AttemptLog(r), [step |-> steps[at], ok |-> ok])
               done == IF ok THEN Append(StepsDone(r), steps[at]) ELSE StepsDone(r)
               over == at = Len(steps) /\ (ok \/ Attempts(log, steps[at]) = numOfAttempts)
           IN  /\ recovered' = [recovered EXCEPT
                                  ![r] = [ran |-> TRUE, done |-> done, log |-> log]]
               /\ pc' = [pc EXCEPT ![r] = IF over THEN "catchUnlock" ELSE "recover"]
  /\ UNCHANGED <<site, wrapper, capt, nextErrs, mutex, seen>>

\* One attempt of the step the catch is at: the first step that has not
\* succeeded. The try block is left when the last step has succeeded, or
\* when backOff throws after the last attempt of a step has failed.
RecoverAttempt(r) ==
  /\ UNCHANGED fsVars
  /\ pc[r] = "recover"
  /\ LET steps == RecoverySteps(site[r])
         step == steps[Len(StepsDone(r)) + 1]
     IN  \E ok \in BOOLEAN :
           LET log == Append(AttemptLog(r), [step |-> step, ok |-> ok])
               done == IF ok THEN Append(StepsDone(r), step) ELSE StepsDone(r)
               over == done = steps \/ (~ok /\ Attempts(log, step) = numOfAttempts)
           IN  /\ recovered' = [recovered EXCEPT
                                  ![r] = [ran |-> TRUE, done |-> done, log |-> log]]
               /\ pc' = [pc EXCEPT ![r] = IF over THEN "catchUnlock" ELSE "recover"]
  /\ UNCHANGED <<site, wrapper, capt, nextErrs, mutex, seen>>

NextRecover ==
  \E r \in Arriving :
    \/ Start(r)
    \/ HandleGitFileLock(r)
    \/ Lock(r)
    \/ Capture(r)
    \/ CaptureUnlock(r)
    \/ Handler(r)
    \/ RecoverAttempt(r)
    \/ CatchUnlock(r)
    \/ FinalUnlock(r)

SpecRecover == InitGate /\ [][NextRecover]_vars

\* The three recovery steps of a Git-file-system site, in the order of C36.
ThreeSteps == <<"rollback staging", "rollback staging-lite", "push --force">>
StepNo(step) == CHOOSE k \in 1..3 : ThreeSteps[k] = step

\* The catch of the request ran after a handler failure on such a site.
Recovering(r) ==
  wrapper[r] = "rollback" /\ IsGgsEnabled(site[r]) /\ recovered[r].ran

\* The step was attempted five times and failed each time.
Exhausted(log, step) ==
  Cardinality({i \in 1..Len(log) : log[i].step = step /\ ~log[i].ok}) = 5

(***************************************************************************)
(* C36: after a handler failure on a Git-file-system site the attempts of  *)
(* the recovery are of the three steps rollback staging, rollback          *)
(* staging-lite and force-push, in that order, a step being begun only     *)
(* after the one before it succeeded and attempted at most 5 times; once a *)
(* step has failed 5 times no later step is attempted, the recovery is     *)
(* over, and the wrapper releases the lock and passes the retry error, not *)
(* the handler's, to next.                                                 *)
(***************************************************************************)
C36_RecoveryStepsBoundedAndOrdered ==
  \A r \in Req :
    Recovering(r) =>
      LET log == recovered[r].log
      IN  /\ \A i \in 1..Len(log) : \E k \in 1..3 : log[i].step = ThreeSteps[k]
          /\ \A k \in 1..3 : Attempts(log, ThreeSteps[k]) <= 5
          /\ \A i, j \in 1..Len(log) : i < j => StepNo(log[i].step) <= StepNo(log[j].step)
          /\ \A j \in 1..Len(log) :
               StepNo(log[j].step) > 1 =>
                 \E i \in 1..(j - 1) :
                   log[i] = [step |-> ThreeSteps[StepNo(log[j].step) - 1], ok |-> TRUE]
          /\ \A k \in 1..3 :
               Exhausted(log, ThreeSteps[k]) =>
                 /\ \A i \in 1..Len(log) : StepNo(log[i].step) <= k
                 /\ pc[r] \in {"catchUnlock", "finalUnlock", "done"}
                 /\ pc[r] \in {"finalUnlock", "done"} =>
                      seen[r].unlocks >= 1 /\ nextErrs[r] = <<"RetryError">>

\* The second step failed five times after the first had succeeded on its
\* third attempt: the push was never attempted and the request is done.
C36_Witness ==
  \E r \in Req :
    /\ Recovering(r) /\ pc[r] = "done"
    /\ Attempts(recovered[r].log, "rollback staging") = 3
    /\ Exhausted(recovered[r].log, "rollback staging-lite")
    /\ nextErrs[r] = <<"RetryError">>

\* The git push commands run by the last call.
Pushes == {i \in 1..Len(sync.cmds) : sync.cmds[i].args[1] = "push"}

(***************************************************************************)
(* C37: push runs a git push only after isValidGitRepo has returned true   *)
(* and ensureCorrectBranch has succeeded for the branch of the call; when  *)
(* ensureCorrectBranch fails, push returns an error and has run no git     *)
(* push.                                                                   *)
(***************************************************************************)
C37_PushOnlyOnCorrectBranch ==
  sync.op = "push" =>
    /\ Pushes # {} => (sync.valid.ok /\ sync.valid.val /\ sync.branchOk)
    /\ (PushOfValidRepo /\ ~sync.branchOk) => (~sync.res.ok /\ Pushes = {})

(***************************************************************************)
(* TokenService (src/services/db/TokenService.ts): the access tokens of    *)
(* the database, the fields of the one service instance and the calls of   *)
(* getAccessToken, each cut where it waits for the database.  The          *)
(* behaviours stay within one reset interval: the timers of                *)
(* switchToReserve and occupyReservedToken do not fire and no reset time   *)
(* passes.                                                                 *)
(***************************************************************************)
GITHUB_TOKEN_LIMIT == 5000
GITHUB_TOKEN_THRESHOLD == 4000

NumCallers == 2
Callers == 1..NumCallers

ActiveTokens == {"a1", "a2"}
ReservedTokens == {"r1"}

MaxResetTime == 2
ResetTimes == 1..MaxResetTime

\* The clock of selectActiveToken: the start of the reset interval.
nowEpochSecondsUTC == 0

NO_RESET_TIME == Err("null")
NO_TOKEN_DATA == Err("null")

\* The values of x-ratelimit-remaining told apart: a full token, the last
\* value above the threshold and the first one at it.
Remaining ==
  {GITHUB_TOKEN_LIMIT, GITHUB_TOKEN_LIMIT - GITHUB_TOKEN_THRESHOLD + 1,
   GITHUB_TOKEN_LIMIT - GITHUB_TOKEN_THRESHOLD}

\* The orders in which findAll may return a set of rows.
Orders(rows) ==
  {s \in [1..Cardinality(rows) -> rows] : \A i, j \in DOMAIN s : s[i] = s[j] => i = j}

TokenDataOf(token) ==
  [tokenString |-> token, remainingRequests |-> GITHUB_TOKEN_LIMIT,
   resetTime |-> NO_RESET_TIME]

queryActiveTokens(db, order) ==
  [i \in DOMAIN order |-> TokenDataOf(order[i])]

NotPast(resetTime) ==
  IF resetTime.ok /\ resetTime.val < nowEpochSecondsUTC THEN NO_RESET_TIME ELSE resetTime

compareResetTime(left, right) ==
  LET leftResetTime == NotPast(left.resetTime)
      rightResetTime == NotPast(right.resetTime)
  IN  IF leftResetTime.ok /\ rightResetTime.ok
        THEN leftResetTime.val < rightResetTime.val
        ELSE leftResetTime.ok

RECURSIVE BestFrom(_, _, _)
BestFrom(activeTokensData, i, currentBest) ==
  IF i > Len(activeTokensData) THEN currentBest
  ELSE LET activeTokenData == activeTokensData[i]
           notExhaused == activeTokenData.remainingRequests
                            > GITHUB_TOKEN_LIMIT - GITHUB_TOKEN_THRESHOLD
           resetTimeHasPast == \/ ~activeTokenData.resetTime.ok
                               \/ activeTokenData.resetTime.val < nowEpochSecondsUTC
           earlierThanCurrentBest ==
             \/ ~currentBest.ok
             \/ compareResetTime(activeTokenData, currentBest.val)
       IN  BestFrom(activeTokensData, i + 1,
                    IF (notExhaused \/ resetTimeHasPast) /\ earlierThanCurrentBest
                      THEN Ok(activeTokenData) ELSE currentBest)

selectActiveToken(activeTokensData) == BestFrom(activeTokensData, 1, NO_TOKEN_DATA)

\* selectReservedToken answers from the reserved token kept by the service.
KeptReservedToken(reservedTokenData) ==
  /\ reservedTokenData.ok
  /\ reservedTokenData.val.remainingRequests > GITHUB_TOKEN_LIMIT - GITHUB_TOKEN_THRESHOLD

\* The rows findOne({isReserved: true, resetTime: null}) can return.
FreeReservedTokens(db) ==
  {t \in DOMAIN db : db[t].isReserved /\ db[t].resetTime = "null"}

\* The non-reserved tokens of the database GitHub still serves above the
\* threshold.
WithCapacity(t) ==
  {a \in DOMAIN t.db : ~t.db[a].isReserved
                       /\ t.github[a] > GITHUB_TOKEN_LIMIT - GITHUB_TOKEN_THRESHOLD}

NotCalled == [pc |-> "idle", res |-> Err("none"), isReserved |-> FALSE,
              switched |-> FALSE, spare |-> {}]

InitToken ==
  /\ GateIdle
  /\ FsFresh
  /\ vol = [b \in Branches |-> ClonedVol]
  /\ checkedOut = [b \in Branches |-> b]
  /\ sync = NoSync
  /\ served = NotServed
  /\ \E active \in SUBSET ActiveTokens, reserved \in SUBSET ReservedTokens :
       tokens = [db |-> [a \in active \cup reserved |->
                           [isReserved |-> a \in reserved, resetTime |-> "null"]],
                 github |-> [a \in active \cup reserved |-> GITHUB_TOKEN_LIMIT],
                 handed |-> {},
                 activeTokensData |-> <<>>,
                 reservedTokenData |-> NO_TOKEN_DATA,
                 useReservedTokens |-> FALSE,
                 initialized |-> FALSE,
                 queries |-> 0,
                 loads |-> 0,
                 calls |-> [c \in Callers |-> NotCalled]]

TokenFrame ==
  UNCHANGED <<gateVars, efs, consumed, gone, calls, last, checkedOut, vol, sync, running,
              served>>

\* getAccessToken fails with the error e.
Failed(t, c, e) ==
  [t EXCEPT !.calls[c] = [@ EXCEPT !.pc = "done", !.res = Err(e)]]

\* The last callback of getAccessToken for [tokenData, isReserved].
Handed(t, c, tokenData, isReserved) ==
  LET switchToReserve == isReserved /\ ~t.useReservedTokens
  IN  [t EXCEPT !.useReservedTokens = @ \/ switchToReserve,
                !.reservedTokenData = IF switchToReserve THEN Ok(tokenData) ELSE @,
                !.handed = @ \cup {tokenData.tokenString},
                !.calls[c] = [@ EXCEPT !.pc = "done",
                                       !.res = Ok(tokenData.tokenString),
                                       !.isReserved = isReserved,
                                       !.switched = switchToReserve]]

\* selectToken up to the point where it waits for the database, with the
\* callback of getAccessToken when it does not wait.
selectToken(t, c) ==
  LET activeToken == IF t.useReservedTokens THEN NO_TOKEN_DATA
                     ELSE selectActiveToken(t.activeTokensData)
      chosen == [t EXCEPT !.calls[c].spare = WithCapacity(t)]
  IN  IF activeToken.ok THEN Handed(chosen, c, activeToken.val, FALSE)
      ELSE IF KeptReservedToken(t.reservedTokenData)
        THEN Handed(chosen, c, t.reservedTokenData.val, TRUE)
      ELSE [chosen EXCEPT !.calls[c].pc = "source"]

updateTokens(t, token, remainingRequests, resetTime) ==
  LET updated(tokenData) ==
        IF tokenData.tokenString = token
          THEN [tokenData EXCEPT !.remainingRequests = remainingRequests,
                                 !.resetTime = Ok(resetTime)]
          ELSE tokenData
  IN  [t EXCEPT !.activeTokensData = [i \in DOMAIN @ |-> updated(@[i])],
                !.reservedTokenData = IF @.ok THEN Ok(updated(@.val)) ELSE @]

\* The initialisation sets the flag before its query is answered.
ensureInitializationWaiting(t, c) ==
  IF t.initialized THEN selectToken(t, c)
  ELSE [t EXCEPT !.initialized = TRUE, !.queries = @ + 1, !.calls[c].pc = "query"]

GetAccessToken(c) ==
  /\ tokens.calls[c].pc = "idle"
  /\ tokens' = ensureInitializationWaiting(tokens, c)
  /\ TokenFrame

QueryResolves(c) ==
  /\ tokens.calls[c].pc = "query"
  /\ \/ \E order \in Orders({a \in DOMAIN tokens.db : ~tokens.db[a].isReserved}) :
          tokens' = selectToken([tokens EXCEPT
                                   !.activeTokensData = queryActiveTokens(tokens.db, order),
                                   !.loads = @ + 1], c)
     \/ tokens' = Failed(tokens, c, "DatabaseError")
  /\ TokenFrame

SourceResolves(c) ==
  /\ tokens.calls[c].pc = "source"
  /\ \/ \E reservedToken \in FreeReservedTokens(tokens.db) :
          tokens' = Handed([tokens EXCEPT !.db[reservedToken].resetTime = "set"], c,
                           TokenDataOf(reservedToken), TRUE)
     \/ /\ FreeReservedTokens(tokens.db) = {}
        /\ tokens' = Failed(tokens, c, "NoAvailableTokenError")
     \/ tokens' = Failed(tokens, c, "DatabaseError")
  /\ TokenFrame

\* A request sent with a token of the service is answered by GitHub.
OnResponse ==
  /\ \E token \in tokens.handed, remainingRequests \in Remaining, resetTime \in ResetTimes :
       /\ remainingRequests < tokens.github[token]
       /\ tokens' = updateTokens([tokens EXCEPT !.github[token] = remainingRequests],
                                 token, remainingRequests, resetTime)
  /\ TokenFrame

\* The caller has its answer and may call again.
CallAgain(c) ==
  /\ tokens.calls[c].pc = "done"
  /\ tokens' = [tokens EXCEPT !.calls[c] = NotCalled]
  /\ TokenFrame

NextToken ==
  \/ \E c \in Callers : GetAccessToken(c)
  \/ \E c \in Callers : QueryResolves(c)
  \/ \E c \in Callers : SourceResolves(c)
  \/ OnResponse
  \/ \E c \in Callers : CallAgain(c)

SpecToken == InitToken /\ [][NextToken]_vars

\* The call has returned a reserved token.
ReturnedReserved(c) ==
  /\ tokens.calls[c].pc = "done"
  /\ tokens.calls[c].res.ok
  /\ tokens.calls[c].isReserved

ReservedOnlyWithoutCapacity ==
  \A c \in Callers :
    (ReturnedReserved(c) \/ tokens.calls[c].switched) => tokens.calls[c].spare = {}

LoadedOnce ==
  /\ tokens.queries <= 1
  /\ tokens.loads <= tokens.queries
  /\ tokens.initialized => tokens.queries = 1

(***************************************************************************)
(* C38: getAccessToken returns a reserved token, and switches to reserved  *)
(* mode, only when no non-reserved token of the database has capacity      *)
(* left, also for a call issued while the initialisation query of an       *)
(* earlier call is in flight; the active tokens are queried from the       *)
(* database once.                                                          *)
(***************************************************************************)
C38_ReservedOnlyWhenActiveExhausted ==
  /\ ReservedOnlyWithoutCapacity
  /\ LoadedOnce
====
